---- MODULE Spec2Model ----
(***************************************************************************)
(* A state-machine model of blenkernel/intern/rigidbody.c: the rigid body  *)
(* world of one scene, its fractured object ("mesh islands" / shards), two *)
(* plain rigid body objects joined by one object-level constraint, the     *)
(* point cache time line and the dynamics engine seen through the RB_*     *)
(* calls the file makes.                                                   *)
(*                                                                         *)
(* Every handler of the C file is an operator from a program state W (a    *)
(* record of the variables below) to the program state it leaves; the      *)
(* actions apply one public entry point each.  `trace` is a history        *)
(* variable: the engine and cache calls made by the last entry point, in   *)
(* order.                                                                  *)
(***************************************************************************)
EXTENDS Integers, Sequences, FiniteSets, TLC

VARIABLES
    rbw,          \* RigidBodyWorld fields
    cache,        \* rbw->pointcache
    islands,      \* MeshIsland + its RigidBodyOb, per shard of the fractured object
    shardcons,    \* RigidBodyShardCon per shard constraint (fmd->meshConstraints)
    objects,      \* Object + ob->rigidbody_object, per group object
    constraints,  \* Object + ob->rigidbody_constraint, per constraint object
    fmd,          \* FractureModifierData settings of the fractured object
    engine,       \* the dynamics engine: what the RB_* calls have built
    crashed,      \* the process dereferenced a null pointer and is gone
    lastOp,       \* history: the entry point that ran last and its arguments
    trace,        \* history: the calls that entry point made
    calc          \* the last call of a function without side effects on the world

vars == <<rbw, cache, islands, shardcons, objects, constraints, fmd, engine,
          crashed, lastOp, trace, calc>>

-----------------------------------------------------------------------------
(* Bounds of the model *)

NumShards == 2        \* mesh islands of the fractured object
StartFrame == 1       \* cache->startframe (and PSFRA)
EndFrame == 3         \* cache->endframe
MaxCallbacks == 1     \* filter callback invocations in one engine step
MaxMass == 3          \* largest island mass drawn for the threshold functions
MaxThreshold == 2     \* largest rmd->breaking_threshold drawn

Shards == 1..NumShards
\* fmd->meshConstraints: constraint c joins island c and island c + 1
ShardCons == 1..(NumShards - 1)
\* rbw->group in list order; an object is named by its place in the list.
\* The first carries the active fracture modifier, the others are plain.
Group == <<1, 2, 3>>
FracObs == {1}
PlainObs == {2, 3}
GroupObs == FracObs \cup PlainObs
\* rbw->constraints: one constraint object, joining the two plain objects
ConObs == {1}
Frames == (StartFrame - 1)..(EndFrame + 1)

-----------------------------------------------------------------------------
(* Handles.  A handle is <<kind, index, generation>>; NULL is the null      *)
(* pointer.  A new handle differs from the one it replaces.  Generations   *)
(* count from the start of the running entry point: every handle that      *)
(* exists when an entry point is called has generation 0 there (Norm), so  *)
(* a handle of a later generation is one this entry point allocated.       *)

NULL == <<"null", 0, 0>>

Fresh(kind, idx, old) == <<kind, idx, old[3] + 1>>

Norm(h) == IF h = NULL THEN NULL ELSE <<h[1], h[2], 0>>

Ev(name, h, x) == <<name, h[1], h[2], x>>

Log(W, e) == [W EXCEPT !.trace = Append(@, e)]

B2N(b) == IF b THEN 1 ELSE 0

Min2(a, b) == IF a < b THEN a ELSE b

Abs(a) == IF a < 0 THEN 0 - a ELSE a

-----------------------------------------------------------------------------
(* The dynamics engine behind the RB_* calls.  engine.bodies and           *)
(* engine.cons are what is registered in the current world; engine.enabled *)
(* holds the constraints the engine treats as enabled; engine.dangling     *)
(* says the world still refers to a body or constraint that was deleted;   *)
(* engine.worlds counts the engine worlds made for this RigidBodyWorld and *)
(* not deleted.                                                            *)

RB_dworld_new(W) ==
    LET h == Fresh("world", 0, W.rbw.physics_world)
    IN  Log([W EXCEPT !.rbw.physics_world = h,
                      !.engine.bodies = {}, !.engine.cons = {},
                      !.engine.dangling = FALSE,
                      !.engine.worlds = @ + 1],
            Ev("RB_dworld_new", h, h[3]))

RB_dworld_delete(W) ==
    Log([W EXCEPT !.engine.bodies = {}, !.engine.cons = {},
                  !.engine.dangling = FALSE,
                  !.engine.worlds = @ - 1],
        Ev("RB_dworld_delete", W.rbw.physics_world, W.rbw.physics_world[3]))

RB_dworld_add_body(W, h) ==
    Log([W EXCEPT !.engine.bodies = @ \cup {h}], Ev("RB_dworld_add_body", h, h[3]))

RB_dworld_remove_body(W, h) ==
    Log([W EXCEPT !.engine.bodies = @ \ {h}], Ev("RB_dworld_remove_body", h, h[3]))

\* x = 1 in the event: the body was still registered in the world when deleted
RB_body_delete(W, h) ==
    Log([W EXCEPT !.engine.bodies = @ \ {h},
                  !.engine.dangling = @ \/ (h \in W.engine.bodies)],
        Ev("RB_body_delete", h, B2N(h \in W.engine.bodies)))

RB_dworld_add_constraint(W, h) ==
    Log([W EXCEPT !.engine.cons = @ \cup {h}], Ev("RB_dworld_add_constraint", h, h[3]))

RB_dworld_remove_constraint(W, h) ==
    Log([W EXCEPT !.engine.cons = @ \ {h}], Ev("RB_dworld_remove_constraint", h, h[3]))

RB_constraint_delete(W, h) ==
    Log([W EXCEPT !.engine.cons = @ \ {h},
                  !.engine.enabled = @ \ {h},
                  !.engine.dangling = @ \/ (h \in W.engine.cons)],
        Ev("RB_constraint_delete", h, B2N(h \in W.engine.cons)))

RB_constraint_set_enabled(W, h, on) ==
    Log([W EXCEPT !.engine.enabled = IF on THEN @ \cup {h} ELSE @ \ {h}],
        Ev("RB_constraint_set_enabled", h, B2N(on)))

RB_constraint_is_enabled(W, h) == h \in W.engine.enabled

\* A null engine world passed to an RB_dworld_* call is dereferenced by the
\* engine: the process stops there.
Crash(W) == [W EXCEPT !.crashed = TRUE, !.trace = Append(@, <<"crash", "null", 0, 0>>)]

-----------------------------------------------------------------------------
(* Shape builder *)

\* RB_shape_new_*: a box is always built, any other kind only from usable geometry
ShapeBuilds(kind, mesh_ok) == kind = "BOX" \/ mesh_ok

\* the new shape is made, then the old one deleted
LogShapeSwap(W, h, old) ==
    IF old # NULL
    THEN [W EXCEPT !.trace = @ \o <<Ev("RB_shape_new", h, h[3]),
                                    Ev("RB_shape_delete", old, old[3])>>]
    ELSE Log(W, Ev("RB_shape_new", h, h[3]))

ReplaceShardShape(W, s) ==
    [LogShapeSwap(W, Fresh("shape_mi", s, W.islands[s].physics_shape),
                  W.islands[s].physics_shape)
        EXCEPT !.islands[s].physics_shape = Fresh("shape_mi", s, @)]

\* the constructor returned NULL; x = 1 in the event: the settings hold a shape
LogShapeFailed(W, kind, idx, old) ==
    Log(W, <<"shape_failed", kind, idx, B2N(old # NULL)>>)

\* the function, were a failed construction to be left at that
BKE_rigidbody_validate_sim_shard_shape_NoFallback(W, s, rebuild) ==
    IF ~W.islands[s].rigidbody THEN W
    ELSE IF W.islands[s].physics_shape # NULL /\ ~rebuild THEN W
    ELSE IF ShapeBuilds(W.islands[s].shape, W.islands[s].mesh_ok)
    THEN ReplaceShardShape(W, s)
    ELSE LogShapeFailed(W, "shape_mi", s, W.islands[s].physics_shape)

RECURSIVE BKE_rigidbody_validate_sim_shard_shape(_, _, _)
BKE_rigidbody_validate_sim_shard_shape(W, s, rebuild) ==
    IF ~W.islands[s].rigidbody THEN W
    ELSE IF W.islands[s].physics_shape # NULL /\ ~rebuild THEN W
    ELSE IF ShapeBuilds(W.islands[s].shape, W.islands[s].mesh_ok)
    THEN ReplaceShardShape(W, s)
    ELSE BKE_rigidbody_validate_sim_shard_shape(
             [LogShapeFailed(W, "shape_mi", s, W.islands[s].physics_shape)
                 EXCEPT !.islands[s].shape = "BOX"], s, TRUE)

ReplaceObjectShape(W, o) ==
    [LogShapeSwap(W, Fresh("shape_ob", o, W.objects[o].physics_shape),
                  W.objects[o].physics_shape)
        EXCEPT !.objects[o].physics_shape = Fresh("shape_ob", o, @)]

RECURSIVE rigidbody_validate_sim_shape(_, _, _)
rigidbody_validate_sim_shape(W, o, rebuild) ==
    IF ~W.objects[o].rbo THEN W
    ELSE IF W.objects[o].physics_shape # NULL /\ ~rebuild THEN W
    ELSE IF ShapeBuilds(W.objects[o].shape, W.objects[o].mesh_ok)
    THEN ReplaceObjectShape(W, o)
    ELSE IF W.objects[o].physics_shape = NULL
    THEN rigidbody_validate_sim_shape(
             [LogShapeFailed(W, "shape_ob", o, NULL) EXCEPT !.objects[o].shape = "BOX"],
             o, TRUE)
    ELSE LogShapeFailed(W, "shape_ob", o, W.objects[o].physics_shape)

-----------------------------------------------------------------------------
(* Body synchronizer.  Each validate function is the composition of its     *)
(* blocks, in source order; a block leaves a crashed state as it is.        *)

\* frame_count reset and the shape block
ShardShapeBlock(W, s, rebuild) ==
    IF W.islands[s].physics_shape = NULL \/ rebuild
    THEN BKE_rigidbody_validate_sim_shard_shape(
             [W EXCEPT !.islands[s].frame_count = 0], s, TRUE)
    ELSE [W EXCEPT !.islands[s].frame_count = 0]

\* if (rbo->physics_object) { if (rebuild == false || KINEMATIC_REBUILD) remove }
ShardRemoveBlock(W, s, rebuild) ==
    IF W.crashed THEN W
    ELSE IF W.islands[s].physics_object # NULL
            /\ (~rebuild \/ "KINEMATIC_REBUILD" \in W.islands[s].flag)
    THEN IF W.rbw.physics_world = NULL THEN Crash(W)
         ELSE RB_dworld_remove_body(W, W.islands[s].physics_object)
    ELSE W

ShardDeleteBody(W, s) ==
    IF W.islands[s].physics_object # NULL
    THEN RB_body_delete(W, W.islands[s].physics_object) ELSE W

\* RB_body_new at the island's stored position
ShardNewBody(W, s) ==
    [W EXCEPT !.islands[s].physics_object = Fresh("mi", s, @),
              !.engine.loc[s] = <<W.islands[s].pos, W.islands[s].orn>>,
              !.trace = Append(@, Ev("RB_body_new",
                                     Fresh("mi", s, W.islands[s].physics_object),
                                     W.islands[s].physics_object[3] + 1))]

\* the build block without its condition: a new body on every validate
ShardBuildBlock_Always(W, s, rebuild) ==
    IF W.crashed THEN W
    ELSE ShardNewBody(ShardDeleteBody(W, s), s)

\* if (!rbo->physics_object || rebuild) { delete the old body, make a new one }
ShardBuildBlock(W, s, rebuild) ==
    IF W.crashed THEN W
    ELSE IF W.islands[s].physics_object = NULL \/ rebuild
    THEN ShardNewBody(ShardDeleteBody(W, s), s)
    ELSE W

\* add to the world if there is one, then clear the flags
ShardAddBlock(W, s) ==
    IF W.crashed THEN W
    ELSE IF W.rbw.physics_world # NULL /\ W.islands[s].physics_object # NULL
    THEN [RB_dworld_add_body(W, W.islands[s].physics_object)
             EXCEPT !.islands[s].flag = @ \ {"NEEDS_VALIDATE", "KINEMATIC_REBUILD"}]
    ELSE [W EXCEPT !.islands[s].flag = @ \ {"NEEDS_VALIDATE", "KINEMATIC_REBUILD"}]

BKE_rigidbody_validate_sim_shard(W, s, rebuild) ==
    IF W.crashed \/ ~W.islands[s].rigidbody THEN W
    ELSE ShardAddBlock(
             ShardBuildBlock(
                 ShardRemoveBlock(ShardShapeBlock(W, s, rebuild), s, rebuild),
                 s, rebuild),
             s)

ObjectShapeBlock(W, o, rebuild) ==
    IF W.objects[o].physics_shape = NULL \/ rebuild
    THEN rigidbody_validate_sim_shape(W, o, TRUE) ELSE W

\* if (rbo->physics_object && rebuild == false) remove
ObjectRemoveBlock(W, o, rebuild) ==
    IF W.crashed THEN W
    ELSE IF W.objects[o].physics_object # NULL /\ ~rebuild
    THEN IF W.rbw.physics_world = NULL THEN Crash(W)
         ELSE RB_dworld_remove_body(W, W.objects[o].physics_object)
    ELSE W

ObjectDeleteBody(W, o) ==
    IF W.objects[o].physics_object # NULL
    THEN RB_body_delete(W, W.objects[o].physics_object) ELSE W

ObjectNewBody(W, o) ==
    [W EXCEPT !.objects[o].physics_object = Fresh("ob", o, @),
              !.trace = Append(@, Ev("RB_body_new",
                                     Fresh("ob", o, W.objects[o].physics_object),
                                     W.objects[o].physics_object[3] + 1))]

ObjectBuildBlock(W, o, rebuild) ==
    IF W.crashed THEN W
    ELSE IF W.objects[o].physics_object = NULL \/ rebuild
    THEN ObjectNewBody(ObjectDeleteBody(W, o), o)
    ELSE W

ObjectAddBlock(W, o) ==
    IF W.crashed THEN W
    ELSE IF W.rbw.physics_world # NULL
    THEN RB_dworld_add_body(W, W.objects[o].physics_object)
    ELSE W

rigidbody_validate_sim_object(W, o, rebuild) ==
    IF W.crashed \/ ~W.objects[o].rbo THEN W
    ELSE ObjectAddBlock(
             ObjectBuildBlock(
                 ObjectRemoveBlock(ObjectShapeBlock(W, o, rebuild), o, rebuild),
                 o, rebuild),
             o)

-----------------------------------------------------------------------------
(* Constraint synchronizer *)

\* the tear-down both validate functions do when an endpoint reference or its
\* rigid body settings are missing
TearDownConstraint(W, pc) ==
    IF W.rbw.physics_world = NULL THEN Crash(W)
    ELSE RB_constraint_delete(RB_dworld_remove_constraint(W, pc), pc)

ConTearDownBlock(W, k) ==
    IF W.constraints[k].physics_constraint = NULL \/ W.rbw.physics_world = NULL
    THEN (IF W.constraints[k].physics_constraint = NULL THEN W ELSE Crash(W))
    ELSE [TearDownConstraint(W, W.constraints[k].physics_constraint)
             EXCEPT !.constraints[k].physics_constraint = NULL]

\* if (rbc->physics_constraint && rebuild == false) remove
ConRemoveBlock(W, k, rebuild) ==
    IF W.constraints[k].physics_constraint # NULL /\ ~rebuild
    THEN IF W.rbw.physics_world = NULL THEN Crash(W)
         ELSE RB_dworld_remove_constraint(W, W.constraints[k].physics_constraint)
    ELSE W

ConDeleteOld(W, k) ==
    IF W.constraints[k].physics_constraint # NULL
    THEN [RB_constraint_delete(W, W.constraints[k].physics_constraint)
             EXCEPT !.constraints[k].physics_constraint = NULL]
    ELSE W

\* if (rb1 && rb2) { RB_constraint_new_*; ... } else return;  RB_constraint_set_enabled
ConNew(W, k) ==
    IF W.objects[W.constraints[k].ob1].physics_object # NULL
       /\ W.objects[W.constraints[k].ob2].physics_object # NULL
    THEN RB_constraint_set_enabled(
             [W EXCEPT !.constraints[k].physics_constraint = Fresh("rc", k, NULL),
                       !.trace = Append(@, Ev("RB_constraint_new", Fresh("rc", k, NULL), 1))],
             Fresh("rc", k, NULL), "ENABLED" \in W.constraints[k].flag)
    ELSE W

ConBuildBlock(W, k, rebuild) ==
    IF W.crashed THEN W
    ELSE IF W.constraints[k].physics_constraint = NULL \/ rebuild
    THEN ConNew(ConDeleteOld(W, k), k)
    ELSE W

ConAddBlock(W, k) ==
    IF W.crashed THEN W
    ELSE IF W.rbw.physics_world # NULL /\ W.constraints[k].physics_constraint # NULL
    THEN RB_dworld_add_constraint(W, W.constraints[k].physics_constraint)
    ELSE W

rigidbody_validate_sim_constraint(W, k, rebuild) ==
    IF W.crashed \/ ~W.constraints[k].rbc THEN W
    ELSE IF W.constraints[k].ob1 = 0 \/ W.constraints[k].ob2 = 0
            \/ ~W.objects[W.constraints[k].ob1].rbo
            \/ ~W.objects[W.constraints[k].ob2].rbo
    THEN ConTearDownBlock(W, k)
    ELSE ConAddBlock(ConBuildBlock(ConRemoveBlock(W, k, rebuild), k, rebuild), k)

ShardConTearDownBlock(W, c) ==
    IF W.shardcons[c].physics_constraint = NULL \/ W.rbw.physics_world = NULL
    THEN (IF W.shardcons[c].physics_constraint = NULL THEN W ELSE Crash(W))
    ELSE [TearDownConstraint(W, W.shardcons[c].physics_constraint)
             EXCEPT !.shardcons[c].physics_constraint = NULL]

\* removed only if rebuild == false and the constraint is not flagged for
\* kinematic deactivation
ShardConRemoveBlock(W, c, rebuild) ==
    IF W.shardcons[c].physics_constraint # NULL /\ ~rebuild
       /\ "USE_KINEMATIC_DEACTIVATION" \notin W.shardcons[c].flag
    THEN IF W.rbw.physics_world = NULL THEN Crash(W)
         ELSE RB_dworld_remove_constraint(W, W.shardcons[c].physics_constraint)
    ELSE W

ShardConDeleteOld(W, c) ==
    IF W.shardcons[c].physics_constraint # NULL
    THEN [RB_constraint_delete(W, W.shardcons[c].physics_constraint)
             EXCEPT !.shardcons[c].physics_constraint = NULL]
    ELSE W

ShardConNew(W, c) ==
    IF W.islands[W.shardcons[c].mi1].physics_object # NULL
       /\ W.islands[W.shardcons[c].mi2].physics_object # NULL
    THEN RB_constraint_set_enabled(
             [W EXCEPT !.shardcons[c].physics_constraint = Fresh("sc", c, NULL),
                       !.trace = Append(@, Ev("RB_constraint_new", Fresh("sc", c, NULL), 1))],
             Fresh("sc", c, NULL), "ENABLED" \in W.shardcons[c].flag)
    ELSE W

\* the build block, were the kinematic-deactivation flag not looked at
ShardConBuildBlock_IgnoreFlag(W, c, rebuild) ==
    IF W.crashed THEN W
    ELSE IF W.shardcons[c].physics_constraint = NULL \/ rebuild
    THEN ShardConNew(ShardConDeleteOld(W, c), c)
    ELSE W

ShardConBuildBlock(W, c, rebuild) ==
    IF W.crashed THEN W
    ELSE IF W.shardcons[c].physics_constraint = NULL \/ rebuild
            \/ "USE_KINEMATIC_DEACTIVATION" \in W.shardcons[c].flag
    THEN ShardConNew(ShardConDeleteOld(W, c), c)
    ELSE W

\* A null handle here means the build block returned for want of a body: the
\* function has returned, the flag is left as it is.
ShardConAddBlock(W, c) ==
    IF W.crashed \/ W.shardcons[c].physics_constraint = NULL THEN W
    ELSE IF W.rbw.physics_world # NULL
    THEN [RB_dworld_add_constraint(W, W.shardcons[c].physics_constraint)
             EXCEPT !.shardcons[c].flag = @ \ {"USE_KINEMATIC_DEACTIVATION"}]
    ELSE [W EXCEPT !.shardcons[c].flag = @ \ {"USE_KINEMATIC_DEACTIVATION"}]

BKE_rigidbody_validate_sim_shard_constraint(W, c, rebuild) ==
    IF W.crashed THEN W
    ELSE IF ~W.islands[W.shardcons[c].mi1].rigidbody
            \/ ~W.islands[W.shardcons[c].mi2].rigidbody
    THEN ShardConTearDownBlock(W, c)
    ELSE ShardConAddBlock(
             ShardConBuildBlock(ShardConRemoveBlock(W, c, rebuild), c, rebuild), c)

-----------------------------------------------------------------------------
(* Index map *)

\* Op applied to each element of seq in list order, threading the state
RECURSIVE ForEach(_, _, _)
ForEach(Op(_, _), W, seq) ==
    IF seq = <<>> THEN W ELSE ForEach(Op, Op(W, Head(seq)), Tail(seq))

SeqOfSet(S) == LET n == Cardinality(S)
               IN  [i \in 1..n |-> CHOOSE x \in S : Cardinality({y \in S : y < x}) = i - 1]

\* fmd->meshIslands, fmd->meshConstraints and the two groups in list order
MeshIslands == SeqOfSet(Shards)
MeshConstraints == SeqOfSet(ShardCons)
ConGroup == SeqOfSet(ConObs)

\* mi->participating_constraints of island s; its length is
\* mi->participating_constraint_count
participating_constraints(s) ==
    SeqOfSet({c \in ShardCons : c = s \/ c + 1 = s})

isModifierActive(W, o) == o \in FracObs /\ W.fmd.active

\* <<number of group objects, plain objects counted, shards counted>>
rigidbody_group_count_items(W) ==
    LET fr == {i \in 1..Len(Group) : isModifierActive(W, Group[i])}
    IN  <<Len(Group), Len(Group) - Cardinality(fr), Cardinality(fr) * Len(MeshIslands)>>

\* a C array read at a 0-based index; outside the allocation the read yields garbage
At(arr, i, garbage) == IF i >= 0 /\ i < Len(arr) THEN arr[i + 1] ELSE garbage

BodyRefNull == <<"null", 0>>
BodyRefGarbage == <<"?", 0>>
ObNull == 0
ObGarbage == 0 - 1

RbRefOfIsland(W, s) == IF W.islands[s].rigidbody THEN <<"mi", s>> ELSE BodyRefNull
RbRefOfObject(W, o) == IF W.objects[o].rbo THEN <<"ob", o>> ELSE BodyRefNull

\* the slots rigidbody_update_ob_array fills for group object number i (0-based),
\* as <<body, owner index, island or 0>>
SlotsOf(W, i) ==
    LET o == Group[i + 1]
    IN  IF isModifierActive(W, o)
        THEN [j \in 1..Len(MeshIslands) |->
                 <<RbRefOfIsland(W, MeshIslands[j]), i, MeshIslands[j]>>]
        ELSE << <<RbRefOfObject(W, o), i, 0>> >>

RECURSIVE AllSlots(_, _)
AllSlots(W, i) == IF i >= Len(Group) THEN <<>> ELSE SlotsOf(W, i) \o AllSlots(W, i + 1)

\* the rebuild, were it to store the slot number as the owner index
rigidbody_update_ob_array_SlotAsOwner(W) ==
    LET cnt   == rigidbody_group_count_items(W)
        slots == AllSlots(W, 0)
        n     == cnt[2] + cnt[3]
    IN  [W EXCEPT
            !.rbw.numbodies = n,
            !.rbw.objects = [i \in 1..cnt[1] |-> Group[i]],
            !.rbw.cache_index_map = [i \in 1..n |-> slots[i][1]],
            !.rbw.cache_offset_map = [i \in 1..n |-> i - 1],
            !.islands = [s \in Shards |->
                IF \E i \in 1..Len(slots) : slots[i][3] = s
                THEN [W.islands[s] EXCEPT !.linear_index =
                         (CHOOSE i \in 1..Len(slots) : slots[i][3] = s) - 1]
                ELSE W.islands[s]],
            !.trace = Append(@, <<"rigidbody_update_ob_array", "null", 0, n>>)]

\* the rebuild, were every island of an owner given the owner's first slot
rigidbody_update_ob_array_SlotPerOwner(W) ==
    LET cnt   == rigidbody_group_count_items(W)
        slots == AllSlots(W, 0)
        n     == cnt[2] + cnt[3]
    IN  [W EXCEPT
            !.rbw.numbodies = n,
            !.rbw.objects = [i \in 1..cnt[1] |-> Group[i]],
            !.rbw.cache_index_map = [i \in 1..n |-> slots[i][1]],
            !.rbw.cache_offset_map = [i \in 1..n |-> slots[i][2]],
            !.islands = [s \in Shards |->
                IF \E i \in 1..Len(slots) : slots[i][3] = s
                THEN [W.islands[s] EXCEPT !.linear_index =
                         (CHOOSE i \in 1..Len(slots) : slots[i][3] # 0
                              /\ \A j \in 1..(i - 1) : slots[j][3] = 0) - 1]
                ELSE W.islands[s]],
            !.trace = Append(@, <<"rigidbody_update_ob_array", "null", 0, n>>)]

rigidbody_update_ob_array(W) ==
    LET cnt   == rigidbody_group_count_items(W)
        slots == AllSlots(W, 0)
        n     == cnt[2] + cnt[3]
    IN  [W EXCEPT
            !.rbw.numbodies = n,
            !.rbw.objects = [i \in 1..cnt[1] |-> Group[i]],
            !.rbw.cache_index_map = [i \in 1..n |-> slots[i][1]],
            !.rbw.cache_offset_map = [i \in 1..n |-> slots[i][2]],
            !.islands = [s \in Shards |->
                IF \E i \in 1..Len(slots) : slots[i][3] = s
                THEN [W.islands[s] EXCEPT !.linear_index =
                         (CHOOSE i \in 1..Len(slots) : slots[i][3] = s) - 1]
                ELSE W.islands[s]],
            !.trace = Append(@, <<"rigidbody_update_ob_array", "null", 0, n>>)]

-----------------------------------------------------------------------------
(* Collision filter callback *)

\* bit i of an int in two's complement (\div rounds down)
BitSet(g, i) == (g \div (2 ^ i)) % 2 = 1

\* the check, were it to look at every bit below the sign
colgroup_check_AllBits(group1, group2) ==
    \E i \in 0..30 : BitSet(group1, i) /\ BitSet(group2, i)

\* the loop over i < 20: v1 = group1 & (1 << i) is positive and equal to v2
\* exactly if bit i is set in both
colgroup_check(group1, group2) ==
    \E i \in 0..19 : BitSet(group1, i) /\ BitSet(group2, i)

\* the kinematic cascade the callback runs for one side of the pair:
\* obA is that side's owner, miA its island (0 for a plain object), obB the other owner
CascadeSide(W, obA, miA, obB) ==
    IF W.crashed
       \/ "USE_KINEMATIC_DEACTIVATION" \notin W.objects[obA].flag THEN W
    ELSE
    LET hasFmd == obA \in FracObs
        valid  == hasFmd /\ "USE_KINEMATIC_DEACTIVATION" \in W.objects[obB].flag
        valid2 == hasFmd /\ ~W.fmd.use_constraints
        Flip(V, s) ==
            IF "KINEMATIC" \in V.islands[s].flag /\ miA = s
            THEN [V EXCEPT !.islands[s].flag =
                     (@ \ {"KINEMATIC"}) \cup {"KINEMATIC_REBUILD", "NEEDS_VALIDATE"}]
            ELSE V
        Unhook(V, c) ==
            [RB_dworld_remove_constraint(V, V.shardcons[c].physics_constraint)
                EXCEPT !.shardcons[c].flag =
                           @ \cup {"NEEDS_VALIDATE", "USE_KINEMATIC_DEACTIVATION"}]
    IN  IF valid \/ valid2
        THEN IF \E s \in Shards : ~W.islands[s].rigidbody
             THEN Crash(W)     \* mi->rigidbody->flag of an island without settings
             ELSE ForEach(Unhook, ForEach(Flip, W, MeshIslands), MeshConstraints)
        ELSE IF ~hasFmd
        THEN [W EXCEPT !.objects[obA].flag =
                 (@ \ {"KINEMATIC"}) \cup {"KINEMATIC_REBUILD", "NEEDS_VALIDATE"}]
        ELSE W

\* The owner the callback resolves for one side: through the index map for an
\* island, the engine's back-reference for a plain object
ResolveOwner(W, mi, blenderOb) ==
    IF mi # 0
    THEN At(W.rbw.objects,
            At(W.rbw.cache_offset_map, W.islands[mi].linear_index, ObGarbage),
            ObGarbage)
    ELSE blenderOb

\* the callback, were it to report its validity test as the verdict
filterCallback_ValidOnly(W, mi1, blenderOb1, mi2, blenderOb2) ==
    LET ob_index1 == IF mi1 # 0
                     THEN At(W.rbw.cache_offset_map, W.islands[mi1].linear_index, ObGarbage)
                     ELSE ObGarbage
        ob_index2 == IF mi2 # 0
                     THEN At(W.rbw.cache_offset_map, W.islands[mi2].linear_index, ObGarbage)
                     ELSE ObGarbage
        ob1 == ResolveOwner(W, mi1, blenderOb1)
        ob2 == ResolveOwner(W, mi2, blenderOb2)
    IN
    IF W.crashed THEN <<W, FALSE>>
    ELSE IF ob1 \notin GroupObs \/ ob2 \notin GroupObs THEN <<Crash(W), FALSE>>
    ELSE IF ~W.objects[ob1].rbo \/ ~W.objects[ob2].rbo THEN <<Crash(W), FALSE>>
    ELSE IF (mi1 # 0 /\ ~W.islands[mi1].rigidbody) \/ (mi2 # 0 /\ ~W.islands[mi2].rigidbody)
    THEN <<Crash(W), FALSE>>
    ELSE
    LET groups == colgroup_check(W.objects[ob1].col_groups, W.objects[ob2].col_groups)
        kin1 == IF mi1 # 0 THEN "KINEMATIC" \in W.islands[mi1].flag
                ELSE "KINEMATIC" \in W.objects[ob1].flag
        kin2 == IF mi2 # 0 THEN "KINEMATIC" \in W.islands[mi2].flag
                ELSE "KINEMATIC" \in W.objects[ob2].flag
        validOb == IF mi1 # 0 /\ mi2 # 0
                   THEN ob_index1 # ob_index2 /\ groups /\ (kin1 \/ kin2)
                   ELSE groups /\ (kin1 \/ kin2)
        W1 == Log(W, <<"filterCallback", "null", mi1 * 10 + mi2, B2N(validOb)>>)
        W2 == IF validOb
              THEN CascadeSide(CascadeSide(W1, ob1, mi1, ob2), ob2, mi2, ob1)
              ELSE W1
    IN  <<W2, groups /\ (kin1 \/ kin2)>>

\* returns <<state, should the pair collide>>
filterCallback(W, mi1, blenderOb1, mi2, blenderOb2) ==
    LET ob_index1 == IF mi1 # 0
                     THEN At(W.rbw.cache_offset_map, W.islands[mi1].linear_index, ObGarbage)
                     ELSE ObGarbage
        ob_index2 == IF mi2 # 0
                     THEN At(W.rbw.cache_offset_map, W.islands[mi2].linear_index, ObGarbage)
                     ELSE ObGarbage
        ob1 == ResolveOwner(W, mi1, blenderOb1)
        ob2 == ResolveOwner(W, mi2, blenderOb2)
    IN
    IF W.crashed THEN <<W, FALSE>>
    ELSE IF ob1 \notin GroupObs \/ ob2 \notin GroupObs THEN <<Crash(W), FALSE>>
    ELSE IF ~W.objects[ob1].rbo \/ ~W.objects[ob2].rbo THEN <<Crash(W), FALSE>>
    ELSE IF (mi1 # 0 /\ ~W.islands[mi1].rigidbody) \/ (mi2 # 0 /\ ~W.islands[mi2].rigidbody)
    THEN <<Crash(W), FALSE>>
    ELSE
    LET groups == colgroup_check(W.objects[ob1].col_groups, W.objects[ob2].col_groups)
        kin1 == IF mi1 # 0 THEN "KINEMATIC" \in W.islands[mi1].flag
                ELSE "KINEMATIC" \in W.objects[ob1].flag
        kin2 == IF mi2 # 0 THEN "KINEMATIC" \in W.islands[mi2].flag
                ELSE "KINEMATIC" \in W.objects[ob2].flag
        validOb == IF mi1 # 0 /\ mi2 # 0
                   THEN ob_index1 # ob_index2 /\ groups /\ (kin1 \/ kin2)
                   ELSE groups /\ (kin1 \/ kin2)
        W1 == Log(W, <<"filterCallback", "null", mi1 * 10 + mi2, B2N(validOb)>>)
        W2 == IF validOb
              THEN CascadeSide(CascadeSide(W1, ob1, mi1, ob2), ob2, mi2, ob1)
              ELSE W1
    IN  <<W2, groups>>

-----------------------------------------------------------------------------
(* World manager *)

WorldDeleteBlock(W) ==
    IF W.rbw.physics_world # NULL THEN RB_dworld_delete(W) ELSE W

\* the block, were it to make the new world without deleting the old one
WorldNewBlock_KeepOld(W, rebuild) ==
    IF rebuild \/ W.rbw.physics_world = NULL THEN RB_dworld_new(W) ELSE W

\* if (rebuild || rbw->physics_world == NULL) { delete the old one; RB_dworld_new }
WorldNewBlock(W, rebuild) ==
    IF rebuild \/ W.rbw.physics_world = NULL
    THEN RB_dworld_new(WorldDeleteBlock(W))
    ELSE W

\* RB_dworld_set_solver_iterations and RB_dworld_set_split_impulse, every call
WorldSettingsBlock(W) ==
    Log(Log(W, Ev("RB_dworld_set_solver_iterations", W.rbw.physics_world, 0)),
        Ev("RB_dworld_set_split_impulse", W.rbw.physics_world, 0))

BKE_rigidbody_validate_sim_world(W, rebuild) ==
    IF W.crashed \/ W.rbw.null THEN W
    ELSE WorldSettingsBlock(WorldNewBlock(W, rebuild))

rigidbody_update_sim_world(W) ==
    IF W.crashed THEN W ELSE rigidbody_update_ob_array(W)

\* the same, were the islands not tagged for validation
RestoreIslands_FlagOnly(W, o) ==
    IF W.objects[o].rbo /\ "KINEMATIC" \in W.objects[o].flag /\ o \in FracObs
    THEN [W EXCEPT !.islands = [s \in Shards |->
             IF W.islands[s].rigidbody
             THEN [W.islands[s] EXCEPT !.flag = @ \cup {"KINEMATIC"}]
             ELSE W.islands[s]]]
    ELSE W

\* the islands of a kinematic fractured object go back to kinematic
RestoreIslands(W, o) ==
    IF W.objects[o].rbo /\ "KINEMATIC" \in W.objects[o].flag /\ o \in FracObs
    THEN [W EXCEPT !.islands = [s \in Shards |->
             IF W.islands[s].rigidbody
             THEN [W.islands[s] EXCEPT !.flag = @ \cup {"KINEMATIC", "NEEDS_VALIDATE"}]
             ELSE W.islands[s]]]
    ELSE W

\* for (go = rbw->group->gobject.first; ...): the world is read without a test
restoreKinematic(W) ==
    IF W.rbw.null THEN Crash(W) ELSE ForEach(RestoreIslands, W, Group)

\* if (rbw) rbw->pointcache->flag |= PTCACHE_OUTDATED;
CacheOutdateBlock(W) ==
    IF W.rbw.null THEN W ELSE [W EXCEPT !.cache.outdated = TRUE]

BKE_rigidbody_cache_reset(W) ==
    IF W.crashed THEN W
    ELSE restoreKinematic(CacheOutdateBlock(W))

\* the world after BKE_rigidbody_free_world: the struct is freed and the
\* scene holds no world
FreedRbw ==
    [null |-> TRUE, muted |-> FALSE, physics_world |-> NULL, ltime |-> StartFrame,
     rebuild_comp_con |-> FALSE, object_changed |-> FALSE,
     refresh_modifiers |-> FALSE, numbodies |-> 0, objects |-> <<>>,
     cache_index_map |-> <<>>, cache_offset_map |-> <<>>]

\* RB_dworld_remove_constraint for the constraints of rbw->constraints
FreeWorldCon(W, k) ==
    IF W.constraints[k].rbc /\ W.constraints[k].physics_constraint # NULL
    THEN RB_dworld_remove_constraint(W, W.constraints[k].physics_constraint)
    ELSE W

\* RB_dworld_remove_body for the objects of rbw->group
FreeWorldBody(W, o) ==
    IF W.objects[o].rbo /\ W.objects[o].physics_object # NULL
    THEN RB_dworld_remove_body(W, W.objects[o].physics_object)
    ELSE W

FreeWorldEngineBlock(W) ==
    IF W.rbw.physics_world # NULL
    THEN RB_dworld_delete(ForEach(FreeWorldBody, ForEach(FreeWorldCon, W, ConGroup), Group))
    ELSE W

\* BKE_rigidbody_free_world(scene->rigidbody_world); scene->rigidbody_world = NULL
BKE_rigidbody_free_world(W) ==
    IF W.crashed \/ W.rbw.null THEN W
    ELSE [FreeWorldEngineBlock(W) EXCEPT !.rbw = FreedRbw]

\* The scene goes on with the copy of its world: the copy has no engine world
\* and no index arrays, the cache is copied with its frames, and the objects
\* of the group are the ones the original world simulates.
BKE_rigidbody_world_copy(W) ==
    IF W.rbw.null THEN Crash(W) ELSE
    [W EXCEPT !.rbw.objects = <<>>,
              !.rbw.physics_world = NULL,
              !.rbw.numbodies = 0,
              !.rbw.cache_index_map = <<>>,
              !.rbw.cache_offset_map = <<>>,
              !.engine.bodies = {},
              !.engine.cons = {},
              !.engine.dangling = FALSE,
              !.engine.worlds = 0]

-----------------------------------------------------------------------------
(* Breaking-threshold evaluator *)

\* <<dist, angle>> between the two islands of shard constraint c
calc_dist_angle(W, c) ==
    IF ~W.islands[W.shardcons[c].mi1].rigidbody \/ ~W.islands[W.shardcons[c].mi2].rigidbody
    THEN <<0, 0>>
    ELSE <<Abs(W.islands[W.shardcons[c].mi1].pos - W.islands[W.shardcons[c].mi2].pos),
           Abs(W.islands[W.shardcons[c].mi1].orn - W.islands[W.shardcons[c].mi2].orn)>>

BKE_rigidbody_start_dist_angle(W, c) ==
    IF W.crashed THEN W
    ELSE [W EXCEPT !.shardcons[c].start_dist = calc_dist_angle(W, c)[1],
                   !.shardcons[c].start_angle = calc_dist_angle(W, c)[2]]

\* con->flag &= ~ENABLED; con->flag |= NEEDS_VALIDATE; disable in the engine if built
BreakConstraint(W, c) ==
    IF W.shardcons[c].physics_constraint # NULL
    THEN RB_constraint_set_enabled(
             [W EXCEPT !.shardcons[c].flag = (@ \ {"ENABLED"}) \cup {"NEEDS_VALIDATE"}],
             W.shardcons[c].physics_constraint, FALSE)
    ELSE [W EXCEPT !.shardcons[c].flag = (@ \ {"ENABLED"}) \cup {"NEEDS_VALIDATE"}]

\* weights are kept in hundredths: thresh_weight 100 is the C value 1.0
ScaledPercentage(W, s) ==
    IF W.fmd.breaking_percentage_weighted
    THEN (W.fmd.breaking_percentage * W.islands[s].thresh_weight) \div 100
    ELSE W.fmd.breaking_percentage

PercentageRuleActive(W, s) ==
    W.fmd.breaking_percentage > 0
    \/ (W.fmd.breaking_percentage_weighted /\ W.islands[s].thresh_weight > 0)

\* participating constraints of island s that are built and disabled in the engine
BrokenCons(W, s) ==
    {c \in ShardCons : /\ c = s \/ c + 1 = s
                       /\ W.shardcons[c].physics_constraint # NULL
                       /\ ~RB_constraint_is_enabled(W, W.shardcons[c].physics_constraint)}

\* the breaking-percentage block of the island loop
BreakingPercentage(W, s) ==
    IF PercentageRuleActive(W, s) /\ Len(participating_constraints(s)) > 0
       /\ Cardinality(BrokenCons(W, s)) * 100
              >= ScaledPercentage(W, s) * Len(participating_constraints(s))
    THEN ForEach(BreakConstraint, W, participating_constraints(s))
    ELSE W

-----------------------------------------------------------------------------
(* Mass-dependent thresholds.  A fracture modifier F is looked at through   *)
(* the fields these functions read: F.isl[s] is a MeshIsland (rigidbody     *)
(* present or not, its mass), F.con[c] a RigidBodyShardCon (mi1, mi2 with 0 *)
(* for NULL, breaking_threshold).  Floats are numbers in hundredths,        *)
(* rounded towards zero by each operation.                                  *)

NoCalc == [fn |-> "none"]

\* a / b and a * b in float arithmetic; a number n stands for n / 100
FDiv(a, b) == (a * 100) \div b

FMul(a, b) == (a * b) \div 100

ToFloat(n) == n * 100

\* both islands of the constraint are there and have rigid body settings
BothBodies(F, c) ==
    /\ F.con[c].mi1 # 0 /\ F.isl[F.con[c].mi1].rigidbody
    /\ F.con[c].mi2 # 0 /\ F.isl[F.con[c].mi2].rigidbody

\* con->mi1->rigidbody->mass + con->mi2->rigidbody->mass
ConMass(F, c) == F.isl[F.con[c].mi1].mass + F.isl[F.con[c].mi2].mass

RECURSIVE MaxConMassLoop(_, _, _)
MaxConMassLoop(F, c, max_con_mass) ==
    IF c > Len(F.con) THEN max_con_mass
    ELSE IF BothBodies(F, c) /\ ConMass(F, c) > max_con_mass
    THEN MaxConMassLoop(F, c + 1, ConMass(F, c))
    ELSE MaxConMassLoop(F, c + 1, max_con_mass)

BKE_rigidbody_calc_max_con_mass(F) == MaxConMassLoop(F, 1, 0)

\* calc_threshold with the ratio upside down
BKE_rigidbody_calc_threshold_Inverse(max_con_mass, F, c) ==
    IF (max_con_mass = 0 /\ F.use_mass_dependent_thresholds) \/ ~BothBodies(F, c)
    THEN F.con[c].breaking_threshold
    ELSE IF F.use_mass_dependent_thresholds
    THEN FMul(FDiv(max_con_mass, ConMass(F, c)), F.breaking_threshold)
    ELSE 0

\* the value of con->breaking_threshold when the function returns
BKE_rigidbody_calc_threshold(max_con_mass, F, c) ==
    IF max_con_mass = 0 /\ F.use_mass_dependent_thresholds
    THEN F.con[c].breaking_threshold
    ELSE IF F.con[c].mi1 = 0 \/ F.con[c].mi2 = 0
    THEN F.con[c].breaking_threshold
    ELSE IF ~BothBodies(F, c)
    THEN F.con[c].breaking_threshold
    ELSE IF F.use_mass_dependent_thresholds
    THEN FMul(FDiv(ConMass(F, c), max_con_mass), F.breaking_threshold)
    ELSE 0

\* the fracture modifier joining two islands: it creates the constraint and,
\* with the mass option off, hands it the flat threshold of its settings
ConnectIslands(F, c) ==
    IF F.use_mass_dependent_thresholds THEN F
    ELSE [F EXCEPT !.con[c].breaking_threshold = F.breaking_threshold]

\* the mass block calling calc_threshold whatever the option says
UpdateThreshold_Unguarded(F, c) ==
    BKE_rigidbody_calc_threshold(BKE_rigidbody_calc_max_con_mass(F), F, c)

\* the mass block of the update pass: the maximum is taken before the
\* constraint loop, and the loop calls calc_threshold, only with the option on
UpdateThreshold(F, c) ==
    IF F.use_mass_dependent_thresholds
    THEN BKE_rigidbody_calc_threshold(BKE_rigidbody_calc_max_con_mass(F), F, c)
    ELSE F.con[c].breaking_threshold

\* RB_constraint_set_breaking_threshold in the constraint validate; FLT_MAX is -1 here
EngineThreshold(con) ==
    IF con.use_breaking THEN con.breaking_threshold ELSE 0 - 1

-----------------------------------------------------------------------------
(* Settings blocks *)

DefaultRbo ==
    [rbo |-> TRUE, flag |-> {}, physics_object |-> NULL, physics_shape |-> NULL,
     shape |-> "CONVEXH", mesh_ok |-> TRUE, col_groups |-> 1]

\* BKE_rigidbody_create_world: no engine world, one-slot arrays with whatever
\* the allocator left in them
BKE_rigidbody_create_world ==
    [null |-> FALSE, muted |-> FALSE, physics_world |-> NULL, ltime |-> StartFrame,
     rebuild_comp_con |-> FALSE, object_changed |-> FALSE,
     refresh_modifiers |-> FALSE, numbodies |-> 0, objects |-> <<ObGarbage>>,
     cache_index_map |-> <<BodyRefGarbage>>, cache_offset_map |-> <<ObGarbage>>]

\* BKE_ptcache_add: the cache of a new world
NewCache ==
    [outdated |-> TRUE, baked |-> FALSE, redo |-> TRUE, frames |-> {}, last_exact |-> 0]

\* ob->rigidbody_object = BKE_rigidbody_create_object(scene, ob, type)
BKE_rigidbody_create_object(W, o) ==
    IF W.objects[o].rbo THEN W
    ELSE BKE_rigidbody_cache_reset(
             [W EXCEPT !.objects[o] = [DefaultRbo EXCEPT !.mesh_ok = W.objects[o].mesh_ok]])

\* ob->rigidbody_constraint = BKE_rigidbody_create_constraint(scene, ob, type)
BKE_rigidbody_create_constraint(W, k) ==
    IF W.constraints[k].rbc THEN W
    ELSE BKE_rigidbody_cache_reset(
             [W EXCEPT !.constraints[k] =
                 [rbc |-> TRUE, ob1 |-> ObNull, ob2 |-> ObNull, flag |-> {"ENABLED"},
                  physics_constraint |-> NULL]])

\* the copy, were it to keep what MEM_dupallocN duplicated
BKE_rigidbody_copy_object_KeepHandles(W, o) ==
    [W.objects[o] EXCEPT !.flag = @ \cup {"NEEDS_VALIDATE"}]

\* MEM_dupallocN(ob->rigidbody_object), tagged and with the engine references
\* cleared
BKE_rigidbody_copy_object(W, o) ==
    [W.objects[o] EXCEPT !.flag = @ \cup {"NEEDS_VALIDATE"},
                         !.physics_object = NULL,
                         !.physics_shape = NULL]

BKE_rigidbody_copy_constraint(W, k) ==
    [W.constraints[k] EXCEPT !.flag = @ \cup {"NEEDS_VALIDATE"},
                             !.physics_constraint = NULL]

\* obn->rigidbody_object = BKE_rigidbody_copy_object(ob): the duplicate of
\* object `src` takes the place `dst` of the group
CopyObjectTo(W, src, dst) ==
    IF W.crashed \/ ~W.objects[src].rbo \/ W.objects[dst].rbo THEN W
    ELSE [W EXCEPT !.objects[dst] = BKE_rigidbody_copy_object(W, src)]

\* if (rbw == NULL) { rbw = BKE_rigidbody_create_world(scene); ... }
ShardWorldBlock(W) ==
    IF W.rbw.null
    THEN BKE_rigidbody_validate_sim_world(
             [W EXCEPT !.rbw = BKE_rigidbody_create_world, !.cache = NewCache], FALSE)
    ELSE W

\* the owner gets settings, or its settings are tagged
ShardOwnerBlock(W, o) ==
    IF ~W.objects[o].rbo THEN BKE_rigidbody_create_object(W, o)
    ELSE [W EXCEPT !.objects[o].flag = @ \cup {"NEEDS_VALIDATE"}]

\* rbo = BKE_rigidbody_copy_object(ob), placed at the object
ShardCopyBlock(W, o, s) ==
    IF W.crashed THEN W
    ELSE LET rbo == BKE_rigidbody_copy_object(W, o)
         IN  [W EXCEPT !.islands[s] =
                 [@ EXCEPT !.rigidbody = TRUE, !.flag = rbo.flag,
                           !.physics_object = rbo.physics_object,
                           !.physics_shape = rbo.physics_shape,
                           !.shape = rbo.shape, !.pos = 0, !.orn = 0]]

\* mi->rigidbody = BKE_rigidbody_create_shard(scene, ob, mi)
BKE_rigidbody_create_shard(W, o, s) ==
    IF W.crashed \/ W.islands[s].rigidbody THEN W
    ELSE ShardCopyBlock(ShardOwnerBlock(ShardWorldBlock(W), o), o, s)

-----------------------------------------------------------------------------
(* The update pass *)

\* RB_body_set_collision_shape(rbo->physics_object, rbo->physics_shape)
ShardSetCollisionShape(W, s) ==
    IF W.islands[s].physics_object = NULL THEN Crash(W)
    ELSE Log(W, Ev("RB_body_set_collision_shape", W.islands[s].physics_object,
                   W.islands[s].physics_shape[3]))

ShardValidateBlock(W, s, rebuild) ==
    IF rebuild \/ "KINEMATIC_REBUILD" \in W.islands[s].flag
    THEN BKE_rigidbody_validate_sim_shard(W, s, TRUE)
    ELSE IF "NEEDS_VALIDATE" \in W.islands[s].flag
    THEN BKE_rigidbody_validate_sim_shard(W, s, FALSE)
    ELSE W

\* the block, were a reshape to rebuild the body as well
ShardReshapeBlock_Rebuild(W, s) ==
    IF W.crashed THEN W
    ELSE IF "NEEDS_RESHAPE" \in W.islands[s].flag
    THEN BKE_rigidbody_validate_sim_shard(W, s, TRUE)
    ELSE W

ShardReshapeBlock(W, s) ==
    IF W.crashed THEN W
    ELSE IF "NEEDS_RESHAPE" \in W.islands[s].flag
    THEN ShardSetCollisionShape(BKE_rigidbody_validate_sim_shard_shape(W, s, TRUE), s)
    ELSE W

ShardClearFlags(W, s) ==
    IF W.crashed THEN W
    ELSE [W EXCEPT !.islands[s].flag = @ \ {"NEEDS_VALIDATE", "NEEDS_RESHAPE"}]

validateShard(W, s, rebuild) ==
    IF W.crashed \/ ~W.islands[s].rigidbody THEN W
    ELSE ShardClearFlags(ShardReshapeBlock(ShardValidateBlock(W, s, rebuild), s), s)

\* rbo->mass of new settings
DefaultMass == 1

\* RBO_GET_MASS(rbo): no mass for a kinematic or disabled body
RBO_GET_MASS(rbo) ==
    IF "KINEMATIC" \in rbo.flag \/ "DISABLED" \in rbo.flag THEN 0 ELSE DefaultMass

\* rbo->flag & RBO_FLAG_KINEMATIC || rbo->flag & RBO_FLAG_DISABLED
KinematicState(rbo) == B2N("KINEMATIC" \in rbo.flag \/ "DISABLED" \in rbo.flag)

\* RB_body_set_kinematic_state(body, kin); RB_body_set_mass(body, mass)
SetKinematicAndMass(W, body, kin, mass) ==
    Log(Log(W, Ev("RB_body_set_kinematic_state", body, kin)),
        Ev("RB_body_set_mass", body, mass))

\* the body of settings rbo of object o before the step: a transformed
\* object's body is made kinematic and massless for the time being
rigidbody_update_sim_ob(W, o, rbo) ==
    IF W.crashed \/ rbo.physics_object = NULL THEN W
    ELSE IF o \in W.moving
    THEN SetKinematicAndMass(W, rbo.physics_object, 1, 0)
    ELSE W

UpdateSimIsland(W, o, s) ==
    IF W.crashed \/ ~W.islands[s].rigidbody THEN W
    ELSE rigidbody_update_sim_ob(W, o, W.islands[s])

UpdateSimObject(W, o) ==
    IF W.crashed THEN W ELSE rigidbody_update_sim_ob(W, o, W.objects[o])

\* the island loop body of rigidbody_update_simulation
UpdateIsland(W, s, rebuild) ==
    IF W.crashed \/ ~W.islands[s].rigidbody THEN W
    ELSE validateShard(BreakingPercentage(W, s), s, rebuild)

\* MIN2(rbsc->mi1->thresh_weight, rbsc->mi2->thresh_weight)
ConWeight(W, c) ==
    Min2(W.islands[W.shardcons[c].mi1].thresh_weight,
         W.islands[W.shardcons[c].mi2].thresh_weight)

AngleRuleActive(W, c) ==
    W.fmd.breaking_angle > 0 \/ (W.fmd.breaking_angle_weighted /\ ConWeight(W, c) > 0)

DistanceRuleActive(W, c) ==
    W.fmd.breaking_distance > 0
    \/ (W.fmd.breaking_distance_weighted /\ ConWeight(W, c) > 0)

\* the comparison, were the threshold never scaled
Exceeds_Unscaled(dev, thr, weighted, weight) == dev > thr

\* does deviation dev exceed threshold thr, scaled by the weight when weighted
Exceeds(dev, thr, weighted, weight) ==
    IF weighted THEN dev * 100 > thr * weight ELSE dev > thr

AngleBlock(W, c, rebuild) ==
    IF (AngleRuleActive(W, c) \/ (DistanceRuleActive(W, c) /\ ~rebuild))
       /\ AngleRuleActive(W, c)
       /\ Exceeds(Abs(calc_dist_angle(W, c)[2] - W.shardcons[c].start_angle),
                  W.fmd.breaking_angle, W.fmd.breaking_angle_weighted, ConWeight(W, c))
    THEN BreakConstraint(W, c) ELSE W

DistanceBlock(W, c, rebuild) ==
    IF (AngleRuleActive(W, c) \/ (DistanceRuleActive(W, c) /\ ~rebuild))
       /\ DistanceRuleActive(W, c)
       /\ Exceeds(Abs(calc_dist_angle(W, c)[1] - W.shardcons[c].start_dist),
                  W.fmd.breaking_distance, W.fmd.breaking_distance_weighted,
                  ConWeight(W, c))
    THEN BreakConstraint(W, c) ELSE W

\* rbsc->mi1->rigidbody->flag of an island without settings, read left to right
FlagReadFaults(W, c, rebuild) ==
    /\ ~rebuild
    /\ \/ ~W.islands[W.shardcons[c].mi1].rigidbody
       \/ /\ "KINEMATIC_REBUILD" \notin W.islands[W.shardcons[c].mi1].flag
          /\ ~W.islands[W.shardcons[c].mi2].rigidbody

ShardConValidateBlock(W, c, rebuild) ==
    IF FlagReadFaults(W, c, rebuild) THEN Crash(W)
    ELSE IF rebuild
            \/ "KINEMATIC_REBUILD" \in W.islands[W.shardcons[c].mi1].flag
            \/ "KINEMATIC_REBUILD" \in W.islands[W.shardcons[c].mi2].flag
    THEN BKE_rigidbody_start_dist_angle(
             BKE_rigidbody_validate_sim_shard_constraint(W, c, TRUE), c)
    ELSE IF "NEEDS_VALIDATE" \in W.shardcons[c].flag
    THEN BKE_rigidbody_validate_sim_shard_constraint(W, c, FALSE)
    ELSE W

\* if (rbsc->physics_constraint && rbw && rbw->rebuild_comp_con) enable
ReEnableBlock(W, c) ==
    IF W.crashed THEN W
    ELSE IF W.shardcons[c].physics_constraint # NULL /\ W.rbw.rebuild_comp_con
    THEN RB_constraint_set_enabled(W, W.shardcons[c].physics_constraint, TRUE)
    ELSE W

ShardConClearFlag(W, c) ==
    IF W.crashed THEN W
    ELSE [W EXCEPT !.shardcons[c].flag = @ \ {"NEEDS_VALIDATE"}]

\* the mesh constraint loop body of rigidbody_update_simulation
UpdateShardCon(W, c, rebuild) ==
    IF W.crashed THEN W
    ELSE ShardConClearFlag(
             ReEnableBlock(
                 ShardConValidateBlock(
                     DistanceBlock(AngleBlock(W, c, rebuild), c, rebuild), c, rebuild),
                 c),
             c)

ObjectSetCollisionShape(W, o) ==
    IF W.objects[o].physics_object = NULL THEN Crash(W)
    ELSE Log(W, Ev("RB_body_set_collision_shape", W.objects[o].physics_object,
                   W.objects[o].physics_shape[3]))

ObjectValidateBlock(W, o, rebuild) ==
    IF rebuild THEN rigidbody_validate_sim_object(W, o, TRUE)
    ELSE IF "NEEDS_VALIDATE" \in W.objects[o].flag
    THEN rigidbody_validate_sim_object(W, o, FALSE)
    ELSE W

ObjectReshapeBlock(W, o) ==
    IF W.crashed THEN W
    ELSE IF "NEEDS_RESHAPE" \in W.objects[o].flag
    THEN ObjectSetCollisionShape(rigidbody_validate_sim_shape(W, o, TRUE), o)
    ELSE W

ObjectClearFlags(W, o) ==
    IF W.crashed THEN W
    ELSE [W EXCEPT !.objects[o].flag = @ \ {"NEEDS_VALIDATE", "NEEDS_RESHAPE"}]

\* the else branch of the group loop: an object without an active fracture modifier
UpdatePlainObject(W, o, rebuild) ==
    IF W.crashed THEN W
    ELSE IF ~W.objects[o].rbo
    THEN rigidbody_validate_sim_object(BKE_rigidbody_create_object(W, o), o, TRUE)
    ELSE ObjectClearFlags(ObjectReshapeBlock(ObjectValidateBlock(W, o, rebuild), o), o)

FracturedBlock(W, o, rebuild) ==
    LET Isl(V, s) == UpdateSimIsland(UpdateIsland(V, s, rebuild), o, s)
        Con(V, c) == UpdateShardCon(V, c, rebuild)
    IN  ForEach(Con, ForEach(Isl, W, MeshIslands), MeshConstraints)

ClearRefreshModifiers(W) ==
    IF W.crashed THEN W ELSE [W EXCEPT !.rbw.refresh_modifiers = FALSE]

\* the group loop body
UpdateGroupObject(W, o, rebuild) ==
    IF W.crashed THEN W
    ELSE IF isModifierActive(W, o)
    THEN ClearRefreshModifiers(FracturedBlock(W, o, rebuild))
    ELSE ClearRefreshModifiers(UpdateSimObject(UpdatePlainObject(W, o, rebuild), o))

ConValidateBlock(W, k, rebuild) ==
    IF rebuild THEN rigidbody_validate_sim_constraint(W, k, TRUE)
    ELSE IF "NEEDS_VALIDATE" \in W.constraints[k].flag
    THEN rigidbody_validate_sim_constraint(W, k, FALSE)
    ELSE W

ConClearFlag(W, k) ==
    IF W.crashed THEN W
    ELSE [W EXCEPT !.constraints[k].flag = @ \ {"NEEDS_VALIDATE"}]

\* the constraint group loop body
UpdateConstraintObject(W, k, rebuild) ==
    IF W.crashed THEN W
    ELSE IF ~W.constraints[k].rbc
    THEN rigidbody_validate_sim_constraint(BKE_rigidbody_create_constraint(W, k), k, TRUE)
    ELSE ConClearFlag(ConValidateBlock(W, k, rebuild), k)

\* if (rebuild) { validate the world; refresh the index arrays }
UpdateWorldBlock(W, rebuild) ==
    IF rebuild
    THEN rigidbody_update_sim_world(BKE_rigidbody_validate_sim_world(W, TRUE))
    ELSE W

rigidbody_update_simulation(W, rebuild) ==
    LET Ob(V, o)  == UpdateGroupObject(V, o, rebuild)
        Con(V, k) == UpdateConstraintObject(V, k, rebuild)
    IN  IF W.crashed \/ W.ret THEN W
        ELSE ForEach(Con,
                     ForEach(Ob,
                             UpdateWorldBlock(
                                 Log(W, <<"rigidbody_update_simulation", "null", 0,
                                          B2N(rebuild)>>),
                                 rebuild),
                             Group),
                     ConGroup)

\* reset kinematic state for transformed objects
PostStepRestore(W, rbo) ==
    IF W.crashed THEN W
    ELSE IF rbo.physics_object = NULL THEN Crash(W)
    ELSE SetKinematicAndMass(W, rbo.physics_object, KinematicState(rbo), RBO_GET_MASS(rbo))

\* the restore, were it made for every body
PostStepObject_Everyone(W, o) ==
    LET Isl(V, s) == IF V.crashed \/ ~V.islands[s].rigidbody THEN V
                     ELSE PostStepRestore(V, V.islands[s])
    IN  IF W.crashed THEN W
        ELSE IF isModifierActive(W, o) THEN ForEach(Isl, W, MeshIslands)
        ELSE IF W.objects[o].rbo THEN PostStepRestore(W, W.objects[o])
        ELSE W

\* the group loop body of the post-step pass
PostStepObject(W, o) ==
    LET Isl(V, s) == IF V.crashed \/ ~V.islands[s].rigidbody \/ o \notin V.moving THEN V
                     ELSE PostStepRestore(V, V.islands[s])
    IN  IF W.crashed THEN W
        ELSE IF isModifierActive(W, o) THEN ForEach(Isl, W, MeshIslands)
        ELSE IF W.objects[o].rbo /\ o \in W.moving THEN PostStepRestore(W, W.objects[o])
        ELSE W

rigidbody_update_simulation_post_step(W) ==
    IF W.crashed \/ W.ret THEN W
    ELSE ForEach(PostStepObject,
                 Log(W, <<"rigidbody_update_simulation_post_step", "null", 0, 0>>),
                 Group)

-----------------------------------------------------------------------------
(* The point cache collaborator, as far as this file drives it *)

\* nonzero when frame cfra is stored
BKE_ptcache_read(W, cfra) == cfra \in W.cache.frames

BKE_ptcache_validate(W, cfra) ==
    IF W.crashed \/ W.ret THEN W
    ELSE Log(W, <<"BKE_ptcache_validate", "null", 0, cfra>>)

\* the islands as the cache stores them: where the engine holds their bodies
StoredIslands(W) ==
    [s \in Shards |->
        IF W.islands[s].rigidbody /\ W.islands[s].physics_object # NULL
        THEN [W.islands[s] EXCEPT !.pos = W.engine.loc[s][1], !.orn = W.engine.loc[s][2]]
        ELSE W.islands[s]]

\* stores the frame, and with it the positions the engine holds for the islands
BKE_ptcache_write(W, cfra) ==
    IF W.crashed \/ W.ret THEN W
    ELSE Log([W EXCEPT !.cache.frames = @ \cup {cfra},
                       !.cache.last_exact =
                           IF cfra - @ = 1 \/ cfra = StartFrame THEN cfra ELSE @,
                       !.islands = StoredIslands(W)],
             <<"BKE_ptcache_write", "null", 0, cfra>>)

\* PTCACHE_RESET_OUTDATED: an outdated cache that is not baked is emptied
BKE_ptcache_id_reset(W) ==
    IF W.crashed THEN W
    ELSE Log([W EXCEPT !.cache.frames = IF W.cache.outdated /\ ~W.cache.baked THEN {} ELSE @,
                       !.cache.outdated = IF W.cache.outdated /\ ~W.cache.baked
                                          THEN FALSE ELSE @,
                       !.cache.last_exact = 0,
                       !.cache.redo = FALSE],
             <<"BKE_ptcache_id_reset", "null", 0, B2N(W.cache.outdated /\ ~W.cache.baked)>>)

-----------------------------------------------------------------------------
(* The engine step *)

\* a body reference <<kind, index>> names the body of island or object `index`
BodyRefs == {<<"mi", s>> : s \in Shards} \cup {<<"ob", o>> : o \in PlainObs}

Registered(W, ref) == \E h \in W.engine.bodies : h[1] = ref[1] /\ h[2] = ref[2]

\* every constraint with a live handle joins two bodies with live handles
ConstraintsHaveBodies(W) ==
    /\ \A c \in ShardCons :
          W.shardcons[c].physics_constraint # NULL
          => /\ W.islands[W.shardcons[c].mi1].physics_object # NULL
             /\ W.islands[W.shardcons[c].mi2].physics_object # NULL
    /\ \A k \in ConObs :
          W.constraints[k].physics_constraint # NULL
          => /\ W.constraints[k].ob1 \in PlainObs
             /\ W.constraints[k].ob2 \in PlainObs
             /\ W.objects[W.constraints[k].ob1].physics_object # NULL
             /\ W.objects[W.constraints[k].ob2].physics_object # NULL

\* the callback runs on the user data of the two bodies: the island (0 for a
\* plain object) and the owner (only set for a plain object)
RunCallback(W, pair) ==
    IF W.crashed THEN W
    ELSE IF Registered(W, pair[1]) /\ Registered(W, pair[2])
    THEN filterCallback(W,
             IF pair[1][1] = "mi" THEN pair[1][2] ELSE 0,
             IF pair[1][1] = "mi" THEN ObNull ELSE pair[1][2],
             IF pair[2][1] = "mi" THEN pair[2][2] ELSE 0,
             IF pair[2][1] = "mi" THEN ObNull ELSE pair[2][2])[1]
    ELSE W

\* a constraint whose impulse exceeds its breaking threshold disables itself
BreakByImpulse(W, c) ==
    IF W.crashed THEN W
    ELSE IF W.shardcons[c].physics_constraint \in W.engine.cons
            /\ "USE_BREAKING" \in W.shardcons[c].flag
    THEN [W EXCEPT !.engine.enabled = @ \ {W.shardcons[c].physics_constraint}]
    ELSE W

\* the solver moves the islands whose bodies are in the world
MoveBodies(W, loc) ==
    IF W.crashed THEN W
    ELSE [W EXCEPT !.engine.loc = [s \in Shards |->
             IF W.islands[s].physics_object \in W.engine.bodies THEN loc[s] ELSE @[s]]]

\* inp.cb: the body pairs the broadphase offers to the filter callback, in order;
\* inp.brk: the shard constraints whose impulse exceeds their breaking threshold;
\* inp.loc: where the solver leaves each island; inp.fault: whether touching a
\* deleted body or constraint still in the world faults
RB_dworld_step_simulation(W, inp) ==
    IF W.crashed \/ W.ret THEN W
    ELSE IF W.rbw.physics_world = NULL THEN Crash(W)
    ELSE IF W.engine.dangling /\ inp.fault THEN Crash(W)
    ELSE MoveBodies(
             ForEach(BreakByImpulse,
                     ForEach(RunCallback,
                             Log(W, <<"RB_dworld_step_simulation", "null", 0,
                                      B2N(ConstraintsHaveBodies(W))>>),
                             inp.cb),
                     SeqOfSet(inp.brk)),
             inp.loc)

-----------------------------------------------------------------------------
(* Removal *)

BKE_rigidbody_remove_shard_con(W, c) ==
    IF W.crashed THEN W
    ELSE IF W.rbw.physics_world # NULL /\ W.shardcons[c].physics_constraint # NULL
    THEN [RB_constraint_delete(
              RB_dworld_remove_constraint(W, W.shardcons[c].physics_constraint),
              W.shardcons[c].physics_constraint)
             EXCEPT !.shardcons[c].physics_constraint = NULL]
    ELSE W

\* if (rbw->physics_world && mi->rigidbody->physics_object) RB_dworld_remove_body
\* if (rbw->physics_world && mi->rigidbody && mi->rigidbody->physics_object)
ShardUnregisterBlock(W, s) ==
    IF W.crashed THEN W
    ELSE IF W.rbw.physics_world # NULL /\ W.islands[s].physics_object # NULL
    THEN RB_dworld_remove_body(W, W.islands[s].physics_object)
    ELSE W

ShardFreeBodyBlock(W, s) ==
    IF W.crashed THEN W
    ELSE IF W.islands[s].physics_object # NULL
    THEN [RB_body_delete(W, W.islands[s].physics_object)
             EXCEPT !.islands[s].physics_object = NULL]
    ELSE W

ShardFreeShapeBlock(W, s) ==
    IF W.crashed THEN W
    ELSE IF W.islands[s].physics_shape # NULL
    THEN [Log(W, Ev("RB_shape_delete", W.islands[s].physics_shape,
                    W.islands[s].physics_shape[3]))
             EXCEPT !.islands[s].physics_shape = NULL]
    ELSE W

\* the body and shape release remove_shard and remove_object share
ReleaseShardBody(W, s) ==
    ShardFreeShapeBlock(ShardFreeBodyBlock(ShardUnregisterBlock(W, s), s), s)

\* arr[i] = NULL for a 0-based i
ClearSlot(arr, i) ==
    [j \in 1..Len(arr) |-> IF j = i + 1 THEN BodyRefNull ELSE arr[j]]

\* rbw->cache_index_map[mi->linear_index] = NULL; a write outside the
\* allocation corrupts the heap
ShardClearSlotBlock(W, s, guard) ==
    IF W.crashed THEN W
    ELSE IF W.rbw.cache_index_map # <<>> /\ guard
    THEN IF W.islands[s].linear_index < 0
            \/ W.islands[s].linear_index >= Len(W.rbw.cache_index_map)
         THEN Crash(W)
         ELSE [W EXCEPT !.rbw.cache_index_map = ClearSlot(@, W.islands[s].linear_index)]
    ELSE W

\* remove_shard without the loop over the participating constraints
BKE_rigidbody_remove_shard_KeepCons(W, s) ==
    IF W.crashed \/ ~W.islands[s].rigidbody THEN W
    ELSE ShardClearSlotBlock(ReleaseShardBody(W, s), s, W.rbw.numbodies > 0)

\* if (mi->rigidbody != NULL && rbw != NULL) { ... }
BKE_rigidbody_remove_shard(W, s) ==
    IF W.crashed \/ ~W.islands[s].rigidbody \/ W.rbw.null THEN W
    ELSE ShardClearSlotBlock(
             ReleaseShardBody(
                 ForEach(BKE_rigidbody_remove_shard_con, W, participating_constraints(s)),
                 s),
             s, W.rbw.numbodies > 0)

\* MEM_freeN(mi->rigidbody); mi->rigidbody = NULL
ShardFreeSettings(W, s) ==
    IF W.crashed THEN W
    ELSE [W EXCEPT !.islands[s].rigidbody = FALSE, !.islands[s].flag = {}]

RemoveIsland(W, s) ==
    IF W.crashed \/ ~W.islands[s].rigidbody THEN W
    ELSE ShardFreeSettings(ShardClearSlotBlock(ReleaseShardBody(W, s), s, TRUE), s)

\* the fracture-modifier branch of BKE_rigidbody_remove_object
RemoveFractured(W) ==
    ForEach(RemoveIsland,
            ForEach(BKE_rigidbody_remove_shard_con, W, MeshConstraints),
            MeshIslands)

\* if (rbw->objects[index] == ob) rbw->objects[index] = NULL
ScanClearObject(W, o, index) ==
    IF W.rbw.objects[index + 1] = o
    THEN [W EXCEPT !.rbw.objects[index + 1] = ObNull]
    ELSE W

\* the array scan of BKE_rigidbody_remove_object, from 0-based position i
RECURSIVE ScanArrays(_, _, _)
ScanArrays(W, o, i) ==
    IF i >= W.rbw.numbodies THEN W
    ELSE IF At(W.rbw.cache_offset_map, i, ObGarbage) < 0
            \/ At(W.rbw.cache_offset_map, i, ObGarbage) >= Len(W.rbw.objects)
    THEN Crash(W)
    ELSE IF At(W.rbw.cache_index_map, i, BodyRefGarbage) = RbRefOfObject(W, o)
    THEN [ScanClearObject(W, o, At(W.rbw.cache_offset_map, i, ObGarbage))
             EXCEPT !.rbw.cache_index_map = ClearSlot(@, i)]
    ELSE ScanArrays(ScanClearObject(W, o, At(W.rbw.cache_offset_map, i, ObGarbage)),
                    o, i + 1)

ObjectFreeBodyBlock(W, o) ==
    IF W.objects[o].physics_object # NULL
    THEN RB_body_delete(W, W.objects[o].physics_object)
    ELSE W

ObjectFreeShapeBlock(W, o) ==
    IF W.objects[o].physics_shape # NULL
    THEN Log(W, Ev("RB_shape_delete", W.objects[o].physics_shape,
                   W.objects[o].physics_shape[3]))
    ELSE W

BKE_rigidbody_free_object(W, o) ==
    IF W.crashed \/ ~W.objects[o].rbo THEN W
    ELSE [ObjectFreeShapeBlock(ObjectFreeBodyBlock(W, o), o) EXCEPT !.objects[o] =
             [DefaultRbo EXCEPT !.rbo = FALSE, !.mesh_ok = W.objects[o].mesh_ok]]

ObjectUnregisterBlock(W, o) ==
    IF W.rbw.physics_world # NULL /\ ~W.objects[o].rbo THEN Crash(W)
    ELSE IF W.rbw.physics_world # NULL /\ W.objects[o].physics_object # NULL
    THEN RB_dworld_remove_body(W, W.objects[o].physics_object)
    ELSE W

ObjectScanBlock(W, o) ==
    IF W.crashed THEN W
    ELSE IF W.rbw.objects # <<>> THEN ScanArrays(W, o, 0)
    ELSE W

\* remove object o from the endpoints of constraint k
Unlink(W, k, o) ==
    IF ~W.constraints[k].rbc THEN W
    ELSE [W EXCEPT !.constraints[k] =
            [@ EXCEPT !.ob1 = IF @ = o THEN ObNull ELSE @,
                      !.ob2 = IF @ = o THEN ObNull ELSE @,
                      !.flag = IF W.constraints[k].ob1 = o \/ W.constraints[k].ob2 = o
                               THEN @ \cup {"NEEDS_VALIDATE"} ELSE @]]

ObjectUnlinkBlock(W, o) ==
    LET Un(V, k) == Unlink(V, k, o)
    IN  IF W.crashed THEN W ELSE ForEach(Un, W, ConGroup)

\* the branch of BKE_rigidbody_remove_object for an object without the modifier
RemovePlain(W, o) ==
    BKE_rigidbody_free_object(
        ObjectUnlinkBlock(ObjectScanBlock(ObjectUnregisterBlock(W, o), o), o), o)

ObjectRemoveBranch(W, o) ==
    IF o \in FracObs THEN RemoveFractured(W) ELSE RemovePlain(W, o)

\* if (rbw) { ... } BKE_rigidbody_cache_reset(rbw);
BKE_rigidbody_remove_object(W, o) ==
    IF W.crashed THEN W
    ELSE IF W.rbw.null THEN BKE_rigidbody_cache_reset(W)
    ELSE BKE_rigidbody_cache_reset(ObjectRemoveBranch(W, o))

ConUnregisterBlock(W, k) ==
    IF ~W.constraints[k].rbc /\ W.rbw.physics_world # NULL THEN Crash(W)
    ELSE IF W.rbw.physics_world # NULL /\ W.constraints[k].physics_constraint # NULL
    THEN RB_dworld_remove_constraint(W, W.constraints[k].physics_constraint)
    ELSE W

ConFreeHandle(W, k) ==
    IF W.constraints[k].physics_constraint # NULL
    THEN RB_constraint_delete(W, W.constraints[k].physics_constraint)
    ELSE W

BKE_rigidbody_free_constraint(W, k) ==
    IF W.crashed \/ ~W.constraints[k].rbc THEN W
    ELSE [ConFreeHandle(W, k) EXCEPT !.constraints[k] =
             [rbc |-> FALSE, ob1 |-> ObNull, ob2 |-> ObNull, flag |-> {},
              physics_constraint |-> NULL]]

BKE_rigidbody_remove_constraint(W, k) ==
    IF W.crashed THEN W
    ELSE BKE_rigidbody_cache_reset(
             BKE_rigidbody_free_constraint(ConUnregisterBlock(W, k), k))

-----------------------------------------------------------------------------
(* Transform sync *)

BKE_rigidbody_check_sim_running(W, ctime) ==
    ~W.rbw.null /\ ~W.rbw.muted /\ ctime > StartFrame

\* every mesh constraint gets RBC_FLAG_ENABLED and RBC_FLAG_NEEDS_VALIDATE
EnableAllCons(W) ==
    [W EXCEPT !.shardcons = [c \in ShardCons |->
        [W.shardcons[c] EXCEPT !.flag = @ \cup {"ENABLED", "NEEDS_VALIDATE"}]]]

\* the object is being transformed: reset the cache and the broken constraints
TransformResetBlock(W, transforming) ==
    IF transforming
    THEN EnableAllCons(BKE_rigidbody_cache_reset([W EXCEPT !.rbw.object_changed = TRUE]))
    ELSE W

\* outside a running simulation the islands follow the object
SyncIslandsBlock(W, ctime, transforming) ==
    [W EXCEPT !.islands = [s \in Shards |->
        IF W.islands[s].rigidbody
           /\ ~(BKE_rigidbody_check_sim_running(W, ctime) /\ ~transforming)
        THEN [W.islands[s] EXCEPT !.pos = 0, !.orn = 0]
        ELSE W.islands[s]]]

\* copy_m4_m4(ob->obmat, mat): the object takes the transform of its body
ObmatFromBody(W, o) == Log(W, <<"obmat_from_body", "ob", o, 0>>)

\* the object-level branch, were the mute flag looked at nowhere
PlainSyncBlock_IgnoreMute(W, o, ctime, transforming) ==
    IF ctime > StartFrame /\ ~transforming
    THEN ObmatFromBody(W, o)
    ELSE IF transforming THEN [W EXCEPT !.rbw.object_changed = TRUE]
    ELSE W

\* the object-level branch for an active, non-kinematic body: in a running
\* simulation the object takes the body's transform unless the world is
\* muted, otherwise the body takes the object's
PlainSyncBlock(W, o, ctime, transforming) ==
    IF BKE_rigidbody_check_sim_running(W, ctime) /\ ~transforming
    THEN (IF W.rbw.muted THEN W ELSE ObmatFromBody(W, o))
    ELSE IF transforming THEN [W EXCEPT !.rbw.object_changed = TRUE]
    ELSE W

\* `transforming` is ob->flag & SELECT && G.moving & G_TRANSFORM_OBJ at the call
BKE_rigidbody_sync_transforms(W, o, ctime, transforming) ==
    IF W.crashed \/ W.rbw.null THEN W
    ELSE IF isModifierActive(W, o)
    THEN SyncIslandsBlock(TransformResetBlock(W, transforming), ctime, transforming)
    ELSE IF ~W.objects[o].rbo \/ "KINEMATIC" \in W.objects[o].flag THEN W
    ELSE PlainSyncBlock(W, o, ctime, transforming)

-----------------------------------------------------------------------------
(* Cache/timeline controller.  W.ret says the running entry point has       *)
(* returned; the blocks after a return leave the state alone.               *)

Done(W) == IF W.crashed THEN W ELSE [W EXCEPT !.ret = TRUE]

\* flag the cache as outdated without a world or when the body count changed
RebuildOutdatedBlock(W) ==
    IF W.rbw.physics_world = NULL
       \/ W.rbw.numbodies # rigidbody_group_count_items(W)[3]
                            + rigidbody_group_count_items(W)[2]
    THEN [W EXCEPT !.cache.outdated = TRUE]
    ELSE W

RebuildClearBlock(W) ==
    IF W.crashed THEN W
    ELSE [W EXCEPT !.cache.last_exact = 0, !.cache.redo = FALSE]

\* the block, were it to rebuild at any frame
RebuildAtStartBlock_AnyFrame(W, ctime) ==
    IF W.rbw.ltime = StartFrame /\ W.cache.outdated
    THEN RebuildClearBlock(
             BKE_ptcache_validate(
                 rigidbody_update_simulation(BKE_ptcache_id_reset(W), TRUE), ctime))
    ELSE W

\* if (ctime == startframe + 1 && rbw->ltime == startframe) if (outdated) { ... }
RebuildAtStartBlock(W, ctime) ==
    IF ctime = StartFrame + 1 /\ W.rbw.ltime = StartFrame /\ W.cache.outdated
    THEN RebuildClearBlock(
             BKE_ptcache_validate(
                 rigidbody_update_simulation(BKE_ptcache_id_reset(W), TRUE), ctime))
    ELSE W

\* cache = rbw->pointcache comes first, without a test of rbw
BKE_rigidbody_rebuild_world(W, ctime) ==
    IF W.crashed THEN W
    ELSE IF W.rbw.null THEN Crash(W)
    ELSE RebuildAtStartBlock(RebuildOutdatedBlock(W), ctime)

\* if (ctime > endframe) ctime = endframe
ClampFrame(ctime) == IF ctime > EndFrame THEN EndFrame ELSE ctime

ObjectChangedBlock_Always(W) ==
    rigidbody_update_simulation(
        [W EXCEPT !.rbw.refresh_modifiers = TRUE, !.rbw.object_changed = FALSE], TRUE)

\* if (rbw->object_changed) { refresh_modifiers; clear; full rebuild }
ObjectChangedBlock(W) ==
    IF W.rbw.object_changed
    THEN rigidbody_update_simulation(
             [W EXCEPT !.rbw.refresh_modifiers = TRUE, !.rbw.object_changed = FALSE], TRUE)
    ELSE W

\* if (ctime <= startframe) { ...; return; }
AtStartBlock(W, ctime) ==
    IF W.crashed \/ W.ret THEN W
    ELSE IF ctime <= StartFrame
    THEN Done(ObjectChangedBlock(
                  [W EXCEPT !.rbw.rebuild_comp_con = TRUE, !.rbw.ltime = StartFrame]))
    ELSE W

\* no world and no bake: return; otherwise make sure the index arrays exist
WorldGuardBlock(W) ==
    IF W.crashed \/ W.ret THEN W
    ELSE IF W.rbw.physics_world = NULL /\ ~W.cache.baked THEN Done(W)
    ELSE IF W.rbw.objects = <<>> \/ W.rbw.cache_index_map = <<>>
    THEN rigidbody_update_ob_array(W)
    ELSE W

CacheReadBlock_NoReturn(W, ctime) ==
    IF W.crashed \/ W.ret THEN W
    ELSE IF BKE_ptcache_read(W, ctime)
    THEN [BKE_ptcache_validate(Log(W, <<"BKE_ptcache_read", "null", 0, ctime>>), ctime)
             EXCEPT !.rbw.ltime = ctime - 1]
    ELSE Log(W, <<"BKE_ptcache_read", "null", 0, ctime>>)

\* the block, were a miss to rebuild wherever the simulation stands
CacheReadBlock_AlwaysRebuild(W, ctime) ==
    IF W.crashed \/ W.ret THEN W
    ELSE IF BKE_ptcache_read(W, ctime)
    THEN Done([BKE_ptcache_validate(Log(W, <<"BKE_ptcache_read", "null", 0, ctime>>), ctime)
                  EXCEPT !.rbw.ltime = ctime])
    ELSE rigidbody_update_simulation(
             restoreKinematic(Log(W, <<"BKE_ptcache_read", "null", 0, ctime>>)), TRUE)

\* a cached frame is accepted; a miss right after the start frame rebuilds
CacheReadBlock(W, ctime) ==
    IF W.crashed \/ W.ret THEN W
    ELSE IF BKE_ptcache_read(W, ctime)
    THEN Done([BKE_ptcache_validate(Log(W, <<"BKE_ptcache_read", "null", 0, ctime>>), ctime)
                  EXCEPT !.rbw.ltime = ctime])
    ELSE IF W.rbw.ltime = StartFrame
    THEN rigidbody_update_simulation(
             restoreKinematic(Log(W, <<"BKE_ptcache_read", "null", 0, ctime>>)), TRUE)
    ELSE Log(W, <<"BKE_ptcache_read", "null", 0, ctime>>)

AdvanceGuardBlock_AnyJump(W, ctime) ==
    IF W.crashed \/ W.ret THEN W
    ELSE IF ctime >= W.rbw.ltime + 1 /\ ~W.cache.baked THEN W
    ELSE Done(W)

\* we can only step one frame forward
\* the guard, were the bake not looked at
AdvanceGuardBlock_IgnoreBake(W, ctime) ==
    IF W.crashed \/ W.ret THEN W
    ELSE IF ctime = W.rbw.ltime + 1 THEN W
    ELSE Done(W)

\* the guard, were the frame not compared with the last simulated one
AdvanceGuardBlock_AnyFrame(W, ctime) ==
    IF W.crashed \/ W.ret THEN W
    ELSE IF ~W.cache.baked THEN W
    ELSE Done(W)

AdvanceGuardBlock(W, ctime) ==
    IF W.crashed \/ W.ret THEN W
    ELSE IF ctime = W.rbw.ltime + 1 /\ ~W.cache.baked THEN W
    ELSE Done(W)

\* write cache for first frame when on second frame
StartWriteBlock(W) ==
    IF W.crashed \/ W.ret THEN W
    ELSE IF W.rbw.ltime = StartFrame /\ (W.cache.outdated \/ W.cache.last_exact = 0)
    THEN BKE_ptcache_write(W, StartFrame)
    ELSE W

CompConBlock(W) ==
    IF W.crashed \/ W.ret THEN W
    ELSE IF W.rbw.ltime > StartFrame THEN [W EXCEPT !.rbw.rebuild_comp_con = FALSE]
    ELSE W

\* BKE_rigidbody_do_simulation up to the engine step
\* do_simulation up to the update pass of the advance block
BeforePass(W, ctime0) ==
    CompConBlock(
        StartWriteBlock(
            AdvanceGuardBlock(
                CacheReadBlock(WorldGuardBlock(AtStartBlock(W, ctime0)),
                               ClampFrame(ctime0)),
                ClampFrame(ctime0))))

BeforeStep(W, ctime0) == rigidbody_update_simulation(BeforePass(W, ctime0), FALSE)

\* whether the call goes on to step the engine
Stepping(W) == ~W.crashed /\ ~W.ret

SetLastTime(W, ctime) ==
    IF W.crashed \/ W.ret THEN W ELSE [W EXCEPT !.rbw.ltime = ctime]

\* the same, were the frame written before the cache is validated
AfterStep_WriteFirst(W, ctime, inp) ==
    SetLastTime(
        BKE_ptcache_validate(
            BKE_ptcache_write(
                rigidbody_update_simulation_post_step(RB_dworld_step_simulation(W, inp)),
                ctime),
            ctime),
        ctime)

\* the engine step and what follows it
AfterStep(W, ctime, inp) ==
    SetLastTime(
        BKE_ptcache_write(
            BKE_ptcache_validate(
                rigidbody_update_simulation_post_step(RB_dworld_step_simulation(W, inp)),
                ctime),
            ctime),
        ctime)

BKE_rigidbody_do_simulation(W, ctime0, inp) ==
    AfterStep(BeforeStep(W, ctime0), ClampFrame(ctime0), inp)

-----------------------------------------------------------------------------
(* The state machine *)

FmdOff ==
    [active |-> TRUE, use_constraints |-> TRUE,
     breaking_percentage |-> 0, breaking_percentage_weighted |-> FALSE,
     breaking_distance |-> 0, breaking_distance_weighted |-> FALSE,
     breaking_angle |-> 0, breaking_angle_weighted |-> FALSE,
     use_mass_dependent_thresholds |-> FALSE]

\* the scenes the model starts from: modifier settings, whether the fractured
\* object is animated (kinematic) with trigger deactivation, the threshold
\* weight of the islands (hundredths), and whether the world is a copy
Scenes ==
    { [fmd |-> FmdOff, kin |-> FALSE, weight |-> 100, copied |-> FALSE],
      [fmd |-> FmdOff, kin |-> TRUE,  weight |-> 100, copied |-> FALSE],
      [fmd |-> FmdOff, kin |-> FALSE, weight |-> 100, copied |-> TRUE],
      [fmd |-> [FmdOff EXCEPT !.breaking_percentage = 50],
       kin |-> FALSE, weight |-> 100, copied |-> FALSE],
      [fmd |-> [FmdOff EXCEPT !.breaking_percentage = 50,
                              !.breaking_percentage_weighted = TRUE],
       kin |-> FALSE, weight |-> 50, copied |-> FALSE],
      [fmd |-> [FmdOff EXCEPT !.breaking_distance = 1],
       kin |-> FALSE, weight |-> 100, copied |-> FALSE],
      [fmd |-> [FmdOff EXCEPT !.breaking_angle = 1],
       kin |-> FALSE, weight |-> 100, copied |-> FALSE] }

KinFlags(sc) == IF sc.kin THEN {"KINEMATIC", "USE_KINEMATIC_DEACTIVATION"} ELSE {}

\* BKE_rigidbody_create_world, then the scene set up on it.  `null` says
\* scene->rigidbody_world is the null pointer (the other fields then mean
\* nothing), `muted` is RBW_FLAG_MUTED.
InitRbw(sc) ==
    [BKE_rigidbody_create_world EXCEPT
        !.objects = IF sc.copied THEN <<>> ELSE @,
        !.cache_index_map = IF sc.copied THEN <<>> ELSE @,
        !.cache_offset_map = IF sc.copied THEN <<>> ELSE @]

\* BKE_rigidbody_create_shard
InitIsland(sc) ==
    [rigidbody |-> TRUE, flag |-> KinFlags(sc) \cup {"NEEDS_VALIDATE"},
     physics_object |-> NULL, physics_shape |-> NULL, linear_index |-> 0,
     frame_count |-> 0, shape |-> "CONVEXH", mesh_ok |-> TRUE,
     thresh_weight |-> sc.weight, pos |-> 0, orn |-> 0]

\* BKE_rigidbody_create_shard_constraint, joined to its two islands
InitShardCon(c) ==
    [mi1 |-> c, mi2 |-> c + 1, flag |-> {"ENABLED", "USE_BREAKING"},
     physics_constraint |-> NULL, start_dist |-> 0, start_angle |-> 0]

\* the collision groups of the objects of the kinematic scene: object 2 shares
\* a group with object 1 and one with object 3, objects 1 and 3 share none
KinGroups == <<1, 3, 2>>

\* BKE_rigidbody_create_object
InitObject(sc, o) ==
    [DefaultRbo EXCEPT !.flag = IF sc.kin /\ o = 1 THEN KinFlags(sc)
                                ELSE IF sc.kin /\ o = 2
                                THEN {"USE_KINEMATIC_DEACTIVATION"} ELSE {},
                       !.col_groups = IF sc.kin THEN KinGroups[o] ELSE @]

InitConstraint ==
    [rbc |-> TRUE, ob1 |-> 2, ob2 |-> 3, flag |-> {"ENABLED", "NEEDS_VALIDATE"},
     physics_constraint |-> NULL]

\* everything but the record of the call without side effects
InitWorld(S) ==
    \E sc \in S :
        /\ rbw = InitRbw(sc)
        /\ cache = NewCache
        /\ islands = [s \in Shards |-> InitIsland(sc)]
        /\ shardcons = [c \in ShardCons |-> InitShardCon(c)]
        /\ objects = [o \in GroupObs |-> InitObject(sc, o)]
        /\ constraints = [k \in ConObs |-> InitConstraint]
        /\ fmd = sc.fmd
        /\ engine = [bodies |-> {}, cons |-> {}, enabled |-> {}, dangling |-> FALSE,
                     worlds |-> 0, loc |-> [s \in Shards |-> <<0, 0>>]]
        /\ crashed = FALSE
        /\ lastOp = <<"init", 0, 0>>
        /\ trace = <<>>

InitOf(S) == InitWorld(S) /\ calc = NoCalc

\* the program state an entry point is called in; `moving` holds the objects
\* that are selected while G.moving has G_TRANSFORM_OBJ, none unless the call
\* says otherwise
Pack ==
    [rbw |-> [rbw EXCEPT !.physics_world = Norm(@)],
     cache |-> cache,
     islands |-> [s \in Shards |->
                    [islands[s] EXCEPT !.physics_object = Norm(@),
                                       !.physics_shape = Norm(@)]],
     shardcons |-> [c \in ShardCons |->
                    [shardcons[c] EXCEPT !.physics_constraint = Norm(@)]],
     objects |-> [o \in GroupObs |->
                    [objects[o] EXCEPT !.physics_object = Norm(@),
                                       !.physics_shape = Norm(@)]],
     constraints |-> [k \in ConObs |->
                    [constraints[k] EXCEPT !.physics_constraint = Norm(@)]],
     fmd |-> fmd,
     engine |-> [engine EXCEPT !.bodies = {Norm(h) : h \in @},
                               !.cons = {Norm(h) : h \in @},
                               !.enabled = {Norm(h) : h \in @}],
     crashed |-> crashed, ret |-> FALSE, trace |-> <<>>, moving |-> {}]

\* the state the entry point `op` leaves
Return(W, op) ==
    /\ rbw' = W.rbw
    /\ cache' = W.cache
    /\ islands' = W.islands
    /\ shardcons' = W.shardcons
    /\ objects' = W.objects
    /\ constraints' = W.constraints
    /\ fmd' = W.fmd
    /\ engine' = W.engine
    /\ crashed' = W.crashed
    /\ trace' = W.trace
    /\ lastOp' = op
    /\ calc' = calc

\* What one engine step may do in state W.  A pair without a kinematic side
\* leaves the callback nothing to change, so only the others are enumerated.
Kinematic(W, ref) ==
    IF ref[1] = "mi" THEN "KINEMATIC" \in W.islands[ref[2]].flag
    ELSE "KINEMATIC" \in W.objects[ref[2]].flag

Pairs(W) ==
    {q \in BodyRefs \X BodyRefs :
        /\ q[1] # q[2]
        /\ Registered(W, q[1]) /\ Registered(W, q[2])
        /\ Kinematic(W, q[1]) \/ Kinematic(W, q[2])}

Breakable(W) ==
    {c \in ShardCons : /\ W.shardcons[c].physics_constraint \in W.engine.cons
                       /\ W.shardcons[c].physics_constraint \in W.engine.enabled
                       /\ "USE_BREAKING" \in W.shardcons[c].flag}

LocChoices(W, s) ==
    IF W.islands[s].physics_object \in W.engine.bodies
    THEN (IF W.fmd.breaking_distance > 0 THEN {0, 2} ELSE {W.engine.loc[s][1]})
         \X (IF W.fmd.breaking_angle > 0 THEN {0, 2} ELSE {W.engine.loc[s][2]})
    ELSE {W.engine.loc[s]}

NoInput ==
    [cb |-> <<>>, brk |-> {}, loc |-> [s \in Shards |-> <<0, 0>>], fault |-> FALSE]

StepInputsUpTo(W, max) ==
    {inp \in [cb : UNION {[1..n -> Pairs(W)] : n \in 0..max},
              brk : SUBSET Breakable(W),
              loc : [Shards -> {0, 2} \X {0, 2}],
              fault : IF W.engine.dangling THEN BOOLEAN ELSE {FALSE}] :
        \A s \in Shards : inp.loc[s] \in LocChoices(W, s)}

StepInputs(W) == StepInputsUpTo(W, MaxCallbacks)

DoSimulation ==
    /\ ~crashed
    /\ \E ctime \in Frames :
          \E inp \in (IF Stepping(BeforeStep(Pack, ctime))
                      THEN StepInputs(BeforeStep(Pack, ctime)) ELSE {NoInput}) :
             Return(BKE_rigidbody_do_simulation(Pack, ctime, inp),
                    <<"do_simulation", ctime, 0>>)

\* a frame request while the user drags object o
DoSimulationMoving ==
    /\ ~crashed
    /\ \E ctime \in Frames, o \in GroupObs :
          \E inp \in (IF Stepping(BeforeStep([Pack EXCEPT !.moving = {o}], ctime))
                      THEN StepInputs(BeforeStep([Pack EXCEPT !.moving = {o}], ctime))
                      ELSE {NoInput}) :
             Return(BKE_rigidbody_do_simulation([Pack EXCEPT !.moving = {o}], ctime, inp),
                    <<"do_simulation_moving", ctime, o>>)

RebuildWorld ==
    /\ ~crashed
    /\ \E ctime \in Frames :
          Return(BKE_rigidbody_rebuild_world(Pack, ctime), <<"rebuild_world", ctime, 0>>)

CacheReset ==
    /\ ~crashed
    /\ Return(BKE_rigidbody_cache_reset(Pack), <<"cache_reset", 0, 0>>)

ValidateSimWorld ==
    /\ ~crashed
    /\ \E rebuild \in BOOLEAN :
          Return(BKE_rigidbody_validate_sim_world(Pack, rebuild),
                 <<"validate_sim_world", 0, B2N(rebuild)>>)

ValidateShard ==
    /\ ~crashed
    /\ \E s \in Shards, rebuild \in BOOLEAN :
          Return(BKE_rigidbody_validate_sim_shard(Pack, s, rebuild),
                 <<"validate_sim_shard", s, B2N(rebuild)>>)

ValidateShardConstraint ==
    /\ ~crashed
    /\ \E c \in ShardCons, rebuild \in BOOLEAN :
          Return(BKE_rigidbody_validate_sim_shard_constraint(Pack, c, rebuild),
                 <<"validate_sim_shard_constraint", c, B2N(rebuild)>>)

RemoveShard ==
    /\ ~crashed
    /\ \E s \in Shards :
          Return(BKE_rigidbody_remove_shard(Pack, s), <<"remove_shard", s, 0>>)

RemoveShardCon ==
    /\ ~crashed
    /\ \E c \in ShardCons :
          Return(BKE_rigidbody_remove_shard_con(Pack, c), <<"remove_shard_con", c, 0>>)

RemoveObject ==
    /\ ~crashed
    /\ \E o \in GroupObs :
          Return(BKE_rigidbody_remove_object(Pack, o), <<"remove_object", o, 0>>)

RemoveConstraint ==
    /\ ~crashed
    /\ \E k \in ConObs :
          Return(BKE_rigidbody_remove_constraint(Pack, k), <<"remove_constraint", k, 0>>)

SyncTransforms ==
    /\ ~crashed
    /\ \E o \in FracObs, ctime \in {StartFrame, StartFrame + 1}, transforming \in BOOLEAN :
          Return(BKE_rigidbody_sync_transforms(Pack, o, ctime, transforming),
                 <<"sync_transforms", ctime, B2N(transforming)>>)

\* the object-level call, on the objects that carry their body themselves;
\* lastOp keeps the frame of the call, 0 while the object is being transformed
SyncObject ==
    /\ ~crashed
    /\ \E o \in PlainObs, ctime \in {StartFrame, StartFrame + 1}, transforming \in BOOLEAN :
          Return(BKE_rigidbody_sync_transforms(Pack, o, ctime, transforming),
                 <<"sync_object", o, IF transforming THEN 0 ELSE ctime>>)

\* the user sets or clears RBW_FLAG_MUTED in rbw->flag
SetMuted ==
    /\ ~crashed
    /\ \E m \in BOOLEAN :
          Return([Pack EXCEPT !.rbw.muted = m], <<"set_muted", B2N(m), 0>>)

WorldCopy ==
    /\ ~crashed
    /\ Return(BKE_rigidbody_world_copy(Pack), <<"world_copy", 0, 0>>)

FreeWorld ==
    /\ ~crashed
    /\ Return(BKE_rigidbody_free_world(Pack), <<"free_world", 0, 0>>)

CreateObject ==
    /\ ~crashed
    /\ \E o \in GroupObs :
          Return(BKE_rigidbody_create_object(Pack, o), <<"create_object", o, 0>>)

CreateConstraint ==
    /\ ~crashed
    /\ \E k \in ConObs :
          Return(BKE_rigidbody_create_constraint(Pack, k), <<"create_constraint", k, 0>>)

CreateShard ==
    /\ ~crashed
    /\ \E o \in FracObs, s \in Shards :
          Return(BKE_rigidbody_create_shard(Pack, o, s), <<"create_shard", s, 0>>)

CopyObject ==
    /\ ~crashed
    /\ \E src \in PlainObs : \E dst \in PlainObs \ {src} :
          Return(CopyObjectTo(Pack, src, dst), <<"copy_object", src, dst>>)

\* The user changes the geometry a body's shape is built from: the mesh is
\* usable for a hull or not, and the body is tagged RBO_FLAG_NEEDS_RESHAPE.
EditGeometry(W, ref, ok) ==
    IF ref[1] = "mi"
    THEN IF ~W.islands[ref[2]].rigidbody THEN W
         ELSE [W EXCEPT !.islands[ref[2]].mesh_ok = ok,
                        !.islands[ref[2]].flag = @ \cup {"NEEDS_RESHAPE"}]
    ELSE IF ~W.objects[ref[2]].rbo THEN W
         ELSE [W EXCEPT !.objects[ref[2]].mesh_ok = ok,
                        !.objects[ref[2]].flag = @ \cup {"NEEDS_RESHAPE"}]

\* the bodies whose geometry is edited
EditedBodies == {<<"mi", 1>>, <<"ob", 2>>}

EditShape ==
    /\ ~crashed
    /\ \E ref \in EditedBodies, ok \in BOOLEAN :
          Return(EditGeometry(Pack, ref, ok), <<"edit_shape", ref, B2N(ok)>>)

\* the user bakes the cache or frees the bake (PTCACHE_BAKED)
Bake ==
    /\ ~crashed
    /\ Return([Pack EXCEPT !.cache.baked = ~@], <<"bake", 0, 0>>)

\* The body, constraint and world synchronizers under the edits of the scene
PlainScenes == {sc \in Scenes : sc.fmd = FmdOff /\ ~sc.kin}

InitSync == InitOf({sc \in PlainScenes : ~sc.copied})

NextSync ==
    \/ ValidateSimWorld
    \/ ValidateShard
    \/ ValidateShardConstraint
    \/ RemoveShard
    \/ RemoveShardCon
    \/ RemoveObject
    \/ RemoveConstraint
    \/ RebuildWorld

SpecSync == InitSync /\ [][NextSync]_vars

\* The time line
InitTime == InitOf(PlainScenes)

NextTime ==
    \/ DoSimulation
    \/ RebuildWorld
    \/ CacheReset
    \/ SyncTransforms
    \/ Bake
    \/ WorldCopy

SpecTime == InitTime /\ [][NextTime]_vars

\* The breaking rules
InitBreak == InitOf({sc \in Scenes : sc.fmd # FmdOff})

NextBreak ==
    \/ DoSimulation
    \/ RebuildWorld
    \/ SyncTransforms

SpecBreak == InitBreak /\ [][NextBreak]_vars

\* The life of the handles: edits of the scene between frame advances
InitLife == InitOf({sc \in PlainScenes : ~sc.copied})

NextLife ==
    \/ DoSimulation
    \/ RebuildWorld
    \/ ValidateShardConstraint
    \/ RemoveShard
    \/ RemoveObject

SpecLife == InitLife /\ [][NextLife]_vars

\* The kinematic cascade: a scene whose fractured object and whose shards are
\* kinematic until something hits them
InitKin == InitOf({sc \in Scenes : sc.kin})

NextKin ==
    \/ DoSimulation
    \/ RebuildWorld
    \/ SyncTransforms

SpecKin == InitKin /\ [][NextKin]_vars

\* The index map: frame advances between removals and validations of shards
\* and objects
InitIndex == InitOf({sc \in PlainScenes : ~sc.copied})

NextIndex ==
    \/ DoSimulation
    \/ RebuildWorld
    \/ ValidateShard
    \/ RemoveShard
    \/ RemoveObject

SpecIndex == InitIndex /\ [][NextIndex]_vars

\* The scene that loses its world: the entry points on a freed world
InitNull == InitOf({sc \in PlainScenes : ~sc.copied})

NextNull ==
    \/ FreeWorld
    \/ CacheReset
    \/ SyncTransforms
    \/ ValidateSimWorld
    \/ CreateObject
    \/ CreateConstraint
    \/ RemoveObject
    \/ RemoveConstraint

SpecNull == InitNull /\ [][NextNull]_vars

\* The settings structs under copy, create, validate and remove
InitCopy == InitOf({sc \in PlainScenes : ~sc.copied})

NextCopy ==
    \/ CreateShard
    \/ CopyObject
    \/ WorldCopy
    \/ RebuildWorld
    \/ RemoveShard
    \/ RemoveObject
    \/ FreeWorld

SpecCopy == InitCopy /\ [][NextCopy]_vars

\* Removal of bodies, also from an object whose fracture modifier is switched
\* off (or refreshing), so that the object is simulated as one body
InactiveScene ==
    [fmd |-> [FmdOff EXCEPT !.active = FALSE], kin |-> FALSE, weight |-> 100,
     copied |-> FALSE]

InitRelease == InitOf({sc \in PlainScenes : ~sc.copied} \cup {InactiveScene})

NextRelease ==
    \/ RebuildWorld
    \/ ValidateSimWorld
    \/ RemoveShard
    \/ RemoveObject

SpecRelease == InitRelease /\ [][NextRelease]_vars

\* Shapes: frame advances between edits of the geometry of the bodies
InitShape == InitOf({sc \in PlainScenes : ~sc.copied})

NextShape ==
    \/ DoSimulation
    \/ RebuildWorld
    \/ EditShape

SpecShape == InitShape /\ [][NextShape]_vars

\* Flagged shard constraints: the callbacks of a step flag them, validations
\* and removals of shards follow
InitFlag == InitOf({sc \in Scenes : sc.kin})

NextFlag ==
    \/ DoSimulation
    \/ RebuildWorld
    \/ ValidateShardConstraint
    \/ RemoveShard

SpecFlag == InitFlag /\ [][NextFlag]_vars

\* The distance and angle rules, plain and weighted: modifiers whose islands
\* weigh 0.5 have a threshold of 3, which a deviation of 2 exceeds only
\* when scaled
RuleScenes ==
    { [fmd |-> [FmdOff EXCEPT !.breaking_distance = 1],
       kin |-> FALSE, weight |-> 100, copied |-> FALSE],
      [fmd |-> [FmdOff EXCEPT !.breaking_angle = 1],
       kin |-> FALSE, weight |-> 100, copied |-> FALSE],
      [fmd |-> [FmdOff EXCEPT !.breaking_distance = 3, !.breaking_distance_weighted = TRUE],
       kin |-> FALSE, weight |-> 50, copied |-> FALSE],
      [fmd |-> [FmdOff EXCEPT !.breaking_angle = 3, !.breaking_angle_weighted = TRUE],
       kin |-> FALSE, weight |-> 50, copied |-> FALSE],
      [fmd |-> [FmdOff EXCEPT !.breaking_distance = 3],
       kin |-> FALSE, weight |-> 50, copied |-> FALSE] }

InitRule == InitOf(RuleScenes)

NextRule ==
    \/ DoSimulation
    \/ RebuildWorld
    \/ SyncTransforms

SpecRule == InitRule /\ [][NextRule]_vars

\* Interactive transform: frame requests while an object is dragged, in the
\* plain and in the kinematic scene
InitMove == InitOf({sc \in Scenes : sc.fmd = FmdOff /\ ~sc.copied})

NextMove ==
    \/ DoSimulationMoving
    \/ RebuildWorld

SpecMove == InitMove /\ [][NextMove]_vars

\* Trigger deactivation with moving islands: the kinematic scene, and the
\* same with a distance rule, in which the solver leaves the islands at
\* different places
TriggerScenes ==
    { [fmd |-> FmdOff, kin |-> TRUE, weight |-> 100, copied |-> FALSE],
      [fmd |-> [FmdOff EXCEPT !.breaking_distance = 1],
       kin |-> TRUE, weight |-> 100, copied |-> FALSE] }

InitTrigger == InitOf(TriggerScenes)

NextTrigger ==
    \/ DoSimulation
    \/ RebuildWorld

SpecTrigger == InitTrigger /\ [][NextTrigger]_vars

\* Trigger deactivation with several pairs offered to the callback in one step
MaxTriggers == 2

TriggerInputs(W) == StepInputsUpTo(W, MaxTriggers)

DoSimulationTriggers ==
    /\ ~crashed
    /\ \E ctime \in Frames :
          \E inp \in (IF Stepping(BeforeStep(Pack, ctime))
                      THEN TriggerInputs(BeforeStep(Pack, ctime)) ELSE {NoInput}) :
             Return(BKE_rigidbody_do_simulation(Pack, ctime, inp),
                    <<"do_simulation", ctime, Len(inp.cb)>>)

InitUnhook == InitOf({sc \in TriggerScenes : sc.fmd = FmdOff})

NextUnhook ==
    \/ DoSimulationTriggers
    \/ RebuildWorld

SpecUnhook == InitUnhook /\ [][NextUnhook]_vars

\* Cache resets between frame advances, with and without trigger deactivation
InitRestore == InitOf({sc \in Scenes : sc.fmd = FmdOff /\ ~sc.copied})

NextRestore ==
    \/ DoSimulation
    \/ RebuildWorld
    \/ CacheReset

SpecRestore == InitRestore /\ [][NextRestore]_vars

\* The percentage rule alone: 50 percent, unweighted and weighted with island
\* weights 0.5, 0.01 and 0
PercentScenes ==
    { [fmd |-> [FmdOff EXCEPT !.breaking_percentage = 50],
       kin |-> FALSE, weight |-> 100, copied |-> FALSE] }
    \cup
    { [fmd |-> [FmdOff EXCEPT !.breaking_percentage = 50,
                              !.breaking_percentage_weighted = TRUE],
       kin |-> FALSE, weight |-> w, copied |-> FALSE] : w \in {50, 1, 0} }

InitPercent == InitOf(PercentScenes)

NextPercent ==
    \/ DoSimulation
    \/ RebuildWorld

SpecPercent == InitPercent /\ [][NextPercent]_vars

\* Muting: frame advances, the mute flag and transform syncs
InitMute == InitOf({sc \in PlainScenes : ~sc.copied})

NextMute ==
    \/ DoSimulation
    \/ SetMuted
    \/ SyncTransforms
    \/ SyncObject

SpecMute == InitMute /\ [][NextMute]_vars

\* The functions without side effects on the world, each applied once to
\* inputs drawn at the start
PureIslands == {1, 2, 3}

\* fracture modifiers of three islands in a row, joined by two constraints
\* that still have the threshold BKE_rigidbody_create_shard_constraint gave
Modifiers ==
    {[use_mass_dependent_thresholds |-> u, breaking_threshold |-> ToFloat(t),
      isl |-> isl,
      con |-> <<[mi1 |-> 1, mi2 |-> 2, breaking_threshold |-> ToFloat(1),
                 use_breaking |-> TRUE],
                [mi1 |-> 2, mi2 |-> 3, breaking_threshold |-> ToFloat(1),
                 use_breaking |-> TRUE]>>] :
        u \in BOOLEAN, t \in 0..MaxThreshold,
        isl \in [PureIslands -> [rigidbody : BOOLEAN,
                                 mass : {ToFloat(m) : m \in 1..MaxMass}]]}

\* the same with the second island reference of the first constraint missing
WithoutReference(F) == [F EXCEPT !.con[1].mi2 = 0]

ThresholdInputs ==
    {[fn |-> "input", F |-> F, max_con_mass |-> ToFloat(m), c |-> c] :
        F \in Modifiers \cup {WithoutReference(F) : F \in Modifiers},
        m \in 0..(2 * MaxMass), c \in {1, 2}}

\* collision groups, drawn as the sets of bits that are set: bits in reach of
\* the check, bits out of its reach, and the sign bit
FirstBits == 0..19
BitChoices == {0, 1, 19, 20, 21, 31}

BitValue(i) == IF i = 31 THEN (0 - 2 ^ 30) - 2 ^ 30 ELSE 2 ^ i

RECURSIVE MaskOf(_)
MaskOf(bits) ==
    IF bits = {} THEN 0
    ELSE LET i == CHOOSE b \in bits : TRUE
         IN  BitValue(i) + MaskOf(bits \ {i})

GroupInputs ==
    {[fn |-> "groups", bits1 |-> b1, bits2 |-> b2,
      group1 |-> MaskOf(b1), group2 |-> MaskOf(b2),
      result |-> FALSE, swapped |-> FALSE] :
        b1 \in SUBSET BitChoices, b2 \in SUBSET BitChoices}

PureInputs == ThresholdInputs \cup GroupInputs

InitPure == InitWorld({sc \in PlainScenes : ~sc.copied}) /\ calc \in PureInputs

\* a call of BKE_rigidbody_calc_threshold
CalcThreshold ==
    /\ calc.fn = "input"
    /\ calc' = [calc EXCEPT !.fn = "calc_threshold",
                            !.F.con[calc.c].breaking_threshold =
                                BKE_rigidbody_calc_threshold(calc.max_con_mass, calc.F, calc.c)]
    /\ UNCHANGED <<rbw, cache, islands, shardcons, objects, constraints, fmd, engine,
                   crashed, lastOp, trace>>

\* the modifier connects its islands, the update pass runs its mass block on
\* every constraint, and the constraint validate hands the thresholds to the engine
UpdateThresholds ==
    /\ calc.fn = "input"
    /\ calc.F \in Modifiers
    /\ calc.max_con_mass = BKE_rigidbody_calc_max_con_mass(calc.F)
    /\ calc.c = 1
    /\ calc' = [calc EXCEPT !.fn = "update_thresholds",
                            !.F.con = [c \in {1, 2} |->
                                [calc.F.con[c] EXCEPT !.breaking_threshold =
                                    UpdateThreshold(
                                        ConnectIslands(ConnectIslands(calc.F, 1), 2), c)]]]
    /\ UNCHANGED <<rbw, cache, islands, shardcons, objects, constraints, fmd, engine,
                   crashed, lastOp, trace>>

\* a call of colgroup_check, and the call with the arguments swapped
ColgroupCheck ==
    /\ calc.fn = "groups"
    /\ calc' = [calc EXCEPT !.fn = "colgroup_check",
                            !.result = colgroup_check(calc.group1, calc.group2),
                            !.swapped = colgroup_check(calc.group2, calc.group1)]
    /\ UNCHANGED <<rbw, cache, islands, shardcons, objects, constraints, fmd, engine,
                   crashed, lastOp, trace>>

\* The transform history of one mesh island: mi->start_frame, mi->frame_count
\* and the array mi->locs (mi->rots goes with it), one entry per position
LocGarbage == -1

HistoryLocs == {0, 2}

\* what MEM_reallocN(arr, n entries) leaves: the first n entries of arr, and
\* uninitialised memory where arr was shorter
MEM_reallocN(arr, n) ==
    [i \in 1..n |-> IF i <= Len(arr) THEN arr[i] ELSE LocGarbage]

\* the part of BKE_rigidbody_update_cell that keeps the history; invalidData
\* is loc[0] == FLT_MIN || rot[0] == FLT_MIN
BKE_rigidbody_update_cell(mi, loc, frame, invalidData) ==
    LET n == frame - mi.start_frame + 1
    IN  IF invalidData THEN mi
        ELSE IF mi.frame_count >= 0 /\ mi.frame_count < n
        THEN [mi EXCEPT !.locs = [MEM_reallocN(mi.locs, mi.frame_count + 1)
                                     EXCEPT ![mi.frame_count + 1] = loc],
                        !.frame_count = n]
        ELSE mi

\* at validation, reset frame count as well
ValidateHistoryBlock(mi) ==
    [mi EXCEPT !.start_frame = StartFrame, !.frame_count = 0]

InitCell ==
    /\ InitWorld({sc \in PlainScenes : ~sc.copied})
    /\ calc = [fn |-> "cell",
               mi |-> [start_frame |-> StartFrame, frame_count |-> 0, locs |-> <<>>]]

\* sync_transforms hands the island's position at frame `frame` to update_cell
UpdateCell ==
    /\ \E loc \in HistoryLocs, frame \in Frames, invalidData \in BOOLEAN :
          calc' = [fn |-> "update_cell",
                   mi |-> BKE_rigidbody_update_cell(calc.mi, loc, frame, invalidData)]
    /\ UNCHANGED <<rbw, cache, islands, shardcons, objects, constraints, fmd, engine,
                   crashed, lastOp, trace>>

\* BKE_rigidbody_validate_sim_shard on the island
ValidateCell ==
    /\ calc' = [fn |-> "validate_sim_shard", mi |-> ValidateHistoryBlock(calc.mi)]
    /\ UNCHANGED <<rbw, cache, islands, shardcons, objects, constraints, fmd, engine,
                   crashed, lastOp, trace>>

NextCell ==
    \/ UpdateCell
    \/ ValidateCell

SpecCell == InitCell /\ [][NextCell]_vars

NextPure ==
    \/ CalcThreshold
    \/ UpdateThresholds
    \/ ColgroupCheck

SpecPure == InitPure /\ [][NextPure]_vars

-----------------------------------------------------------------------------
(* Properties of the time line (SpecTime) *)

\* the calls named `name` the last entry point made
Calls(t, name) == {i \in DOMAIN t : t[i][1] = name}

\* the engine objects the last entry point constructed
Constructions(t) ==
    {i \in DOMAIN t : t[i][1] \in {"RB_dworld_new", "RB_body_new", "RB_constraint_new"}}

\* C1: One call of BKE_rigidbody_do_simulation invokes the engine step at most
\* once, and only when the end-clamped requested frame is the frame after the
\* last simulated one and the cache is not baked; a request further ahead
\* never steps.
C1_StepsOneFrame ==
    [][lastOp'[1] = "do_simulation"
       => /\ Cardinality(Calls(trace', "RB_dworld_step_simulation")) <= 1
          /\ Calls(trace', "RB_dworld_step_simulation") # {}
             => /\ lastOp'[2] > StartFrame
                /\ ClampFrame(lastOp'[2]) = rbw.ltime + 1
                /\ ~cache.baked
          /\ ClampFrame(lastOp'[2]) > rbw.ltime + 1
             => Calls(trace', "RB_dworld_step_simulation") = {}]_vars

\* a call of do_simulation has stepped the engine one frame past the start
C1_Witness ==
    /\ lastOp[1] = "do_simulation"
    /\ Calls(trace, "RB_dworld_step_simulation") # {}
    /\ rbw.ltime > StartFrame + 1

\* a call of do_simulation asked for a frame further ahead and did not step
C1_WitnessJump ==
    /\ lastOp[1] = "do_simulation"
    /\ lastOp[2] = EndFrame
    /\ rbw.ltime = StartFrame
    /\ rbw.physics_world # NULL
    /\ Calls(trace, "RB_dworld_step_simulation") = {}

\* the request of the step reaches the cached read with its frame stored
CachedRequest ==
    /\ lastOp'[1] = "do_simulation"
    /\ lastOp'[2] > StartFrame
    /\ ClampFrame(lastOp'[2]) \in cache.frames

\* the cached frame is accepted and nothing else happens
CachedFrameAccepted ==
    /\ rbw'.ltime = ClampFrame(lastOp'[2])
    /\ Calls(trace', "BKE_ptcache_validate") # {}
    /\ Calls(trace', "RB_dworld_step_simulation") = {}
    /\ Calls(trace', "rigidbody_update_simulation") = {}
    /\ Constructions(trace') = {}
    /\ Calls(trace', "BKE_ptcache_write") = {}
    /\ cache'.frames = cache.frames

\* C2 as stated: every request past the start frame whose frame is in the
\* cache accepts the cached frame, sets the last simulated time to it, and
\* neither steps, rebuilds nor writes the cache.
C2_Original == [][CachedRequest => CachedFrameAccepted]_vars

\* C2: a request past the start frame whose frame is in the cache, made while
\* the engine world exists or the cache is baked, accepts the cached frame,
\* sets the last simulated time to it, and neither steps the engine, rebuilds
\* world, bodies or constraints, nor writes the cache.
C2_CachedFrame ==
    [][CachedRequest /\ (rbw.physics_world # NULL \/ cache.baked)
       => CachedFrameAccepted]_vars

\* a cached frame behind the last simulated one has been accepted
C2_Witness ==
    /\ lastOp[1] = "do_simulation"
    /\ lastOp[2] = StartFrame + 1
    /\ Calls(trace, "BKE_ptcache_read") # {}
    /\ Calls(trace, "BKE_ptcache_validate") # {}
    /\ rbw.ltime = StartFrame + 1
    /\ EndFrame \in cache.frames

\* C3: a request at or before the start frame sets rebuild_comp_con, sets the
\* last simulated time to the start frame, runs a full rebuild exactly when
\* object_changed was set, clearing it, and neither steps the engine nor
\* reads or writes the cache.
C3_AtStart ==
    [][lastOp'[1] = "do_simulation" /\ lastOp'[2] <= StartFrame
       => /\ rbw'.rebuild_comp_con
          /\ rbw'.ltime = StartFrame
          /\ ~rbw'.object_changed
          /\ rbw.object_changed
             <=> \E i \in Calls(trace', "rigidbody_update_simulation") : trace'[i][4] = 1
          /\ ~rbw.object_changed => trace' = <<>>
          /\ Calls(trace', "RB_dworld_step_simulation") = {}
          /\ Calls(trace', "BKE_ptcache_read") = {}
          /\ Calls(trace', "BKE_ptcache_write") = {}
          /\ cache' = cache]_vars

\* a request at the start frame found object_changed set and rebuilt
C3_Witness ==
    /\ lastOp[1] = "do_simulation"
    /\ lastOp[2] <= StartFrame
    /\ \E i \in Calls(trace, "rigidbody_update_simulation") : trace[i][4] = 1
    /\ Constructions(trace) # {}
    /\ rbw.ltime = StartFrame

-----------------------------------------------------------------------------
(* Properties of the synchronizers (SpecSync) *)

\* an endpoint of shard constraint c has no live engine body
EndpointWithoutBody(c) ==
    \E s \in {shardcons[c].mi1, shardcons[c].mi2} :
        ~islands[s].rigidbody \/ islands[s].physics_object = NULL

\* C4: when an endpoint of a shard constraint has no live engine body (no
\* settings, or settings whose body handle is null), a validate of the
\* constraint, with rebuild true or false, returns with the constraint's
\* engine handle null, nothing of it registered in the engine world, and no
\* engine constraint constructed.
C4_InertWithoutBodies ==
    [][/\ lastOp'[1] = "validate_sim_shard_constraint"
       /\ ~crashed'
       /\ EndpointWithoutBody(lastOp'[2])
       => /\ shardcons'[lastOp'[2]].physics_constraint = NULL
          /\ \A h \in engine'.cons : ~(h[1] = "sc" /\ h[2] = lastOp'[2])
          /\ Calls(trace', "RB_constraint_new") = {}]_vars

\* the body handle of island s / object o is in the engine world
ShardRegistered(s) == islands[s].physics_object \in engine.bodies

ObjectRegistered(o) == objects[o].physics_object \in engine.bodies

\* C6: between the operations of SpecSync every island with settings and every
\* plain object with settings has a non-null engine body handle if and only if
\* that handle is registered in the current engine world.
C6_HandleIffRegistered ==
    ~crashed =>
        /\ \A s \in Shards :
              islands[s].rigidbody
              => (islands[s].physics_object # NULL <=> ShardRegistered(s))
        /\ \A o \in PlainObs :
              objects[o].rbo
              => (objects[o].physics_object # NULL <=> ObjectRegistered(o))

\* C7: no operation deletes an engine body that is still registered in the
\* engine world: every RB_body_delete of the last operation found its body
\* already removed from the world.
C7_RemovedBeforeDeleted ==
    \A i \in Calls(trace, "RB_body_delete") : trace[i][4] = 0

\* the engine handles the last call allocated
Allocations(t) ==
    {i \in DOMAIN t : t[i][1] \in {"RB_body_new", "RB_shape_new", "RB_constraint_new"}}

\* the state a second call starts in: the one the first call left
Again(W) == [W EXCEPT !.trace = <<>>]

ShardOnce(s) == BKE_rigidbody_validate_sim_shard(Pack, s, FALSE)
ShardTwice(s) == BKE_rigidbody_validate_sim_shard(Again(ShardOnce(s)), s, FALSE)

ObjectOnce(o) == rigidbody_validate_sim_object(Pack, o, FALSE)
ObjectTwice(o) == rigidbody_validate_sim_object(Again(ObjectOnce(o)), o, FALSE)

ShardConOnce(c) == BKE_rigidbody_validate_sim_shard_constraint(Pack, c, FALSE)
ShardConTwice(c) ==
    BKE_rigidbody_validate_sim_shard_constraint(Again(ShardConOnce(c)), c, FALSE)

ConOnce(k) == rigidbody_validate_sim_constraint(Pack, k, FALSE)
ConTwice(k) == rigidbody_validate_sim_constraint(Again(ConOnce(k)), k, FALSE)

\* C8: in every state of SpecSync, a body validate or a constraint validate
\* called with rebuild false twice in succession allocates no engine body,
\* shape or constraint in the second call, and the second call leaves the
\* handles the first call left.
C8_SecondCallAllocatesNothing ==
    ~crashed =>
        /\ \A s \in Shards :
              ~ShardTwice(s).crashed
              => /\ Allocations(ShardTwice(s).trace) = {}
                 /\ ShardTwice(s).islands = ShardOnce(s).islands
        /\ \A o \in PlainObs :
              ~ObjectTwice(o).crashed
              => /\ Allocations(ObjectTwice(o).trace) = {}
                 /\ ObjectTwice(o).objects = ObjectOnce(o).objects
        /\ \A c \in ShardCons :
              ~ShardConTwice(c).crashed
              => /\ Allocations(ShardConTwice(c).trace) = {}
                 /\ ShardConTwice(c).shardcons[c].physics_constraint
                       = ShardConOnce(c).shardcons[c].physics_constraint
        /\ \A k \in ConObs :
              ~ConTwice(k).crashed
              => /\ Allocations(ConTwice(k).trace) = {}
                 /\ ConTwice(k).constraints[k].physics_constraint
                       = ConOnce(k).constraints[k].physics_constraint

\* a state where the first call on a shard constraint allocates its handle and
\* the second call returns, while an island and the object constraint hold
\* handles that the second call puts into the world again
C8_Witness ==
    /\ ~crashed
    /\ \E c \in ShardCons :
          /\ Calls(ShardConOnce(c).trace, "RB_constraint_new") # {}
          /\ Calls(ShardConTwice(c).trace, "RB_dworld_add_constraint") # {}
          /\ ~ShardConTwice(c).crashed
    /\ \E s \in Shards :
          /\ Calls(ShardTwice(s).trace, "RB_dworld_add_body") # {}
          /\ ~ShardTwice(s).crashed
    /\ \E k \in ConObs :
          /\ Calls(ConTwice(k).trace, "RB_dworld_add_constraint") # {}
          /\ ~ConTwice(k).crashed

-----------------------------------------------------------------------------
(* Properties of the breaking rules (SpecBreak) *)

\* the shard constraints island s takes part in
Participating(s) == {c \in ShardCons : shardcons[c].mi1 = s \/ shardcons[c].mi2 = s}

\* the engine treats the handle of shard constraint c as enabled
EngineEnabled(e, c) == \E h \in e.enabled : h[1] = "sc" /\ h[2] = c

\* participating constraints of s that hold a handle the engine has disabled
AlreadyDisabled(s) ==
    {c \in Participating(s) :
        shardcons[c].physics_constraint # NULL /\ ~EngineEnabled(engine, c)}

\* B / N * 100 >= the configured percentage, scaled by the island's weight
\* (hundredths) when the rule is weighted
OverPercentage(s) ==
    /\ islands[s].rigidbody
    /\ Participating(s) # {}
    /\ fmd.breaking_percentage > 0
       \/ (fmd.breaking_percentage_weighted /\ islands[s].thresh_weight > 0)
    /\ IF fmd.breaking_percentage_weighted
       THEN Cardinality(AlreadyDisabled(s)) * 100 * 100
               >= fmd.breaking_percentage * islands[s].thresh_weight
                  * Cardinality(Participating(s))
       ELSE Cardinality(AlreadyDisabled(s)) * 100
               >= fmd.breaking_percentage * Cardinality(Participating(s))

\* the last entry point ran an update pass
UpdatePassRan(t) == Calls(t, "rigidbody_update_simulation") # {}

\* C9: when an island is over the breaking percentage before a frame advance
\* that runs the update pass, then after that call every participating
\* constraint of the island has its ENABLED flag cleared, and every one that
\* holds an engine handle is disabled in the engine.
C9_PercentageBreaksAll ==
    [][/\ lastOp'[1] = "do_simulation"
       /\ UpdatePassRan(trace')
       /\ ~crashed'
       => \A s \in Shards :
             OverPercentage(s)
             => \A c \in Participating(s) :
                   /\ "ENABLED" \notin shardcons'[c].flag
                   /\ shardcons'[c].physics_constraint # NULL
                      => ~EngineEnabled(engine', c)]_vars

\* shard constraint c is disabled: flag cleared, and not enabled in the engine
\* if it holds a handle
Disabled(sc, e, c) ==
    /\ "ENABLED" \notin sc[c].flag
    /\ sc[c].physics_constraint # NULL => ~EngineEnabled(e, c)

\* C10: a shard constraint that is disabled (ENABLED flag cleared by a breaking
\* rule, engine constraint not enabled) is still disabled after every frame
\* advance and world rebuild; only BKE_rigidbody_sync_transforms, the explicit
\* reset, may enable it again.
C10_StaysDisabled ==
    [][/\ lastOp'[1] \in {"do_simulation", "rebuild_world"}
       /\ ~crashed'
       => \A c \in ShardCons :
             Disabled(shardcons, engine, c) => Disabled(shardcons', engine', c)]_vars

-----------------------------------------------------------------------------
(* Properties of the handles across edits and frame advances (SpecLife) *)

-----------------------------------------------------------------------------
(* Properties of the functions without side effects (SpecPure) *)

\* a call of calc_threshold, option on, on a constraint between two bodies
\* whose mass sum is within the island maximum handed in
MassCall ==
    /\ calc.fn = "calc_threshold"
    /\ calc.F.use_mass_dependent_thresholds
    /\ BothBodies(calc.F, calc.c)
    /\ calc.max_con_mass > 0
    /\ ConMass(calc.F, calc.c) <= calc.max_con_mass

\* the constraints of the same modifier with a larger mass sum within the maximum
Heavier ==
    {d \in DOMAIN calc.F.con :
        /\ BothBodies(calc.F, d)
        /\ ConMass(calc.F, calc.c) < ConMass(calc.F, d)
        /\ ConMass(calc.F, d) <= calc.max_con_mass}

\* C11: with mass-dependent thresholds on, for one island maximum and one
\* configured maximum threshold, the threshold calc_threshold stores is
\* monotone in the mass sum of the endpoints (m1 < m2 <= maximum gives
\* threshold(m1) <= threshold(m2)), and a constraint whose mass sum is the
\* maximum gets the configured maximum threshold.
C11_ThresholdMonotone ==
    MassCall =>
        /\ \A d \in Heavier :
              calc.F.con[calc.c].breaking_threshold
                 <= BKE_rigidbody_calc_threshold(calc.max_con_mass, calc.F, d)
        /\ ConMass(calc.F, calc.c) = calc.max_con_mass
           => calc.F.con[calc.c].breaking_threshold = calc.F.breaking_threshold

\* a call that stored a threshold strictly below that of a heavier constraint,
\* which itself reaches the island maximum and the configured threshold
C11_Witness ==
    /\ MassCall
    /\ \E d \in Heavier :
          /\ calc.F.con[calc.c].breaking_threshold
                < BKE_rigidbody_calc_threshold(calc.max_con_mass, calc.F, d)
          /\ ConMass(calc.F, d) = calc.max_con_mass
          /\ BKE_rigidbody_calc_threshold(calc.max_con_mass, calc.F, d)
                = calc.F.breaking_threshold

\* the largest mass sum among the constraints of F that join two bodies
IslandMax(F) ==
    CHOOSE m \in {ConMass(F, c) : c \in {d \in DOMAIN F.con : BothBodies(F, d)}} :
        \A c \in {d \in DOMAIN F.con : BothBodies(F, d)} : ConMass(F, c) <= m

\* t is mass / max * configured threshold, up to the rounding of the division
\* and of the multiplication (numbers in hundredths)
IsScaledThreshold(t, mass, max, configured) ==
    /\ t * max <= mass * configured
    /\ (t + 1) * 100 * max + configured * max > 100 * mass * configured

-----------------------------------------------------------------------------
(* Properties of the collision filter callback (SpecKin)                    *)

\* The states in which the engine calls the callback: the world as a frame
\* advance hands it to the engine step
StepStates == {V \in {BeforeStep(Pack, ctime) : ctime \in Frames} : Stepping(V)}

\* the pairs of bodies in the world the engine may present to the callback
Candidates(W) ==
    {q \in BodyRefs \X BodyRefs :
        q[1] # q[2] /\ Registered(W, q[1]) /\ Registered(W, q[2])}

SideIsland(ref) == IF ref[1] = "mi" THEN ref[2] ELSE 0
SideObject(ref) == IF ref[1] = "mi" THEN ObNull ELSE ref[2]

\* the callback on a pair: <<state, should the pair collide>>
Callback(W, q) ==
    filterCallback(W, SideIsland(q[1]), SideObject(q[1]),
                   SideIsland(q[2]), SideObject(q[2]))

Owner(W, ref) == ResolveOwner(W, SideIsland(ref), SideObject(ref))

\* the callback found the pair valid
FoundValid(W, R) ==
    \E i \in (Len(W.trace) + 1)..Len(R.trace) :
        R.trace[i][1] = "filterCallback" /\ R.trace[i][4] = 1

\* the callback on pair q triggers the deactivation of the fractured owner of
\* side a, hit by side b
Triggers(W, q, a, b) ==
    /\ ~Callback(W, q)[1].crashed
    /\ FoundValid(W, Callback(W, q)[1])
    /\ q[a][1] = "mi"
    /\ Owner(W, q[a]) \in FracObs
    /\ "USE_KINEMATIC_DEACTIVATION" \in W.objects[Owner(W, q[a])].flag
    /\ \/ "USE_KINEMATIC_DEACTIVATION" \in W.objects[Owner(W, q[b])].flag
       \/ ~W.fmd.use_constraints

Woken(flag) ==
    /\ "KINEMATIC" \notin flag
    /\ {"KINEMATIC_REBUILD", "NEEDS_VALIDATE"} \subseteq flag

\* C13: when the callback triggers the kinematic deactivation of an owner
\* that has shards, every shard of that owner that was kinematic is dynamic
\* afterwards (KINEMATIC cleared, KINEMATIC_REBUILD and NEEDS_VALIDATE set)
\* and every shard constraint of the owner carries NEEDS_VALIDATE and
\* USE_KINEMATIC_DEACTIVATION.
C13_WakesWholeIsland ==
    \A W \in StepStates : \A q \in Candidates(W) :
        \A a \in {1, 2} :
            Triggers(W, q, a, 3 - a)
            => /\ \A s \in Shards :
                     "KINEMATIC" \in W.islands[s].flag
                     => Woken(Callback(W, q)[1].islands[s].flag)
               /\ \A c \in ShardCons :
                     {"NEEDS_VALIDATE", "USE_KINEMATIC_DEACTIVATION"}
                         \subseteq Callback(W, q)[1].shardcons[c].flag

\* the constraint half of C13 alone
C13_ConstraintsFlagged ==
    \A W \in StepStates : \A q \in Candidates(W) :
        \A a \in {1, 2} :
            Triggers(W, q, a, 3 - a)
            => \A c \in ShardCons :
                  {"NEEDS_VALIDATE", "USE_KINEMATIC_DEACTIVATION"}
                      \subseteq Callback(W, q)[1].shardcons[c].flag

\* the collision groups of the two owners of a pair share a group
GroupsCompatible(W, q) ==
    colgroup_check(W.objects[Owner(W, q[1])].col_groups,
                   W.objects[Owner(W, q[2])].col_groups)

\* the callback changed the scene or the engine world
Mutated(W, q) == [Callback(W, q)[1] EXCEPT !.trace = W.trace] # W

Answered(W, q) == ~Callback(W, q)[1].crashed

\* C14 as claimed: the callback lets a pair collide only if the owners' groups
\* are compatible and one side is kinematic, and changes flags only then.
C14_Original ==
    \A W \in StepStates : \A q \in Candidates(W) :
        Answered(W, q)
        => /\ Callback(W, q)[2]
              => GroupsCompatible(W, q) /\ (Kinematic(W, q[1]) \/ Kinematic(W, q[2]))
           /\ Mutated(W, q)
              => GroupsCompatible(W, q) /\ (Kinematic(W, q[1]) \/ Kinematic(W, q[2]))

\* C14: the callback lets a pair collide exactly if the owners' collision
\* groups are compatible, whether or not a side is kinematic; it changes flags
\* only if the groups are compatible and at least one side is kinematic.
C14_CollideIffCompatible ==
    \A W \in StepStates : \A q \in Candidates(W) :
        Answered(W, q)
        => /\ Callback(W, q)[2] <=> GroupsCompatible(W, q)
           /\ Mutated(W, q)
              => GroupsCompatible(W, q) /\ (Kinematic(W, q[1]) \/ Kinematic(W, q[2]))

\* a step in which one pair without a kinematic side is let through, one pair
\* is refused, and one pair has its flags changed
C14_Witness ==
    \E W \in StepStates :
        /\ \E q \in Candidates(W) :
              /\ Answered(W, q) /\ Callback(W, q)[2]
              /\ ~Kinematic(W, q[1]) /\ ~Kinematic(W, q[2])
        /\ \E q \in Candidates(W) : Answered(W, q) /\ ~Callback(W, q)[2]
        /\ \E q \in Candidates(W) : Answered(W, q) /\ Mutated(W, q)

-----------------------------------------------------------------------------
(* Properties of the collision group check (SpecPure)                       *)

GroupCall == calc.fn = "colgroup_check"

\* C15: colgroup_check(g1, g2) is true exactly if g1 and g2 have a common set
\* bit among bits 0..19; a common bit from bit 20 up does not make the masks
\* compatible; and the answer is the same with the arguments swapped.
C15_SharedLowBit ==
    GroupCall
    => /\ calc.result <=> (calc.bits1 \cap calc.bits2 \cap FirstBits # {})
       /\ calc.bits1 \cap calc.bits2 \cap FirstBits = {} => ~calc.result
       /\ calc.result = calc.swapped

\* two masks whose only common bits are bit 20 and the sign bit, found
\* incompatible
C15_Witness ==
    GroupCall /\ calc.bits1 = {0, 20, 31} /\ calc.bits2 = {19, 20, 31} /\ ~calc.result

\* two masks that share bit 19, found compatible
C15_WitnessShared ==
    GroupCall /\ calc.bits1 = {1, 19, 21} /\ calc.bits2 = {0, 19} /\ calc.result

-----------------------------------------------------------------------------
(* Properties of the index map (SpecSync)                                   *)

IndexMap(r) == <<r.objects, r.cache_index_map, r.cache_offset_map>>

\* the call that just returned built the arrays anew
RanUpdateObArray ==
    \E i \in 1..Len(trace') : trace'[i][1] = "rigidbody_update_ob_array"

\* C16: the three arrays of the index map change only in a call that runs
\* rigidbody_update_ob_array; a removal of a shard or of an object leaves
\* every slot of the existing arrays as it was.
C16_OnlyReplacedWholesale ==
    [][(~crashed' /\ IndexMap(rbw') # IndexMap(rbw)) => RanUpdateObArray]_vars

\* the island bodies in the world the engine steps
ShardBodies(W) == {s \in Shards : Registered(W, <<"mi", s>>)}

\* the island's index is inside the arrays and leads to the object that owns
\* the island
IndexedToOwner(W, s) ==
    /\ W.islands[s].linear_index >= 0
    /\ W.islands[s].linear_index < W.rbw.numbodies
    /\ W.islands[s].linear_index < Len(W.rbw.cache_offset_map)
    /\ ResolveOwner(W, s, ObNull) \in FracObs

-----------------------------------------------------------------------------
(* Properties of the cache flags (SpecSync)                                 *)

Removals == {"remove_object", "remove_shard", "remove_constraint", "remove_shard_con"}

\* C18: every removal of an object, a shard, a constraint or a shard
\* constraint returns with the cache flagged outdated.
C18_RemovalOutdatesCache ==
    [][(lastOp'[1] \in Removals /\ ~crashed') => cache'.outdated]_vars

\* the same for the two removals that end with BKE_rigidbody_cache_reset
C18_ObjectRemovalOutdatesCache ==
    [][(lastOp'[1] \in {"remove_object", "remove_constraint"} /\ ~crashed')
          => cache'.outdated]_vars

-----------------------------------------------------------------------------
(* Properties of BKE_rigidbody_rebuild_world (SpecTime)                     *)

RebuildCall == lastOp'[1] = "rebuild_world" /\ ~crashed'

\* the call reset the cache and ran the update pass with rebuild set
FullRebuild ==
    /\ Calls(trace', "BKE_ptcache_id_reset") # {}
    /\ \E i \in Calls(trace', "rigidbody_update_simulation") : trace'[i][4] = 1

\* the frame after the start, nothing simulated past the start, and the cache
\* flagged outdated when the call tests the flag
RebuildDue ==
    /\ lastOp'[2] = StartFrame + 1
    /\ rbw.ltime = StartFrame
    /\ RebuildOutdatedBlock(Pack).cache.outdated

\* the call left world, bodies, constraints and cache frames alone
NothingRebuilt ==
    /\ trace' = <<>>
    /\ engine' = Pack.engine
    /\ islands' = Pack.islands /\ shardcons' = Pack.shardcons
    /\ objects' = Pack.objects /\ constraints' = Pack.constraints
    /\ cache'.frames = cache.frames

\* the rebuild happens exactly when it is due, and otherwise nothing is rebuilt
C19_RebuildExactlyWhenDue ==
    [][RebuildCall => /\ FullRebuild <=> RebuildDue
                      /\ ~RebuildDue => NothingRebuilt]_vars

\* C19 as claimed: rebuild_world resets the cache and rebuilds world, bodies
\* and constraints exactly when ctime == start + 1, last-simulated-time ==
\* start and the cache is flagged outdated; on that path the cache is
\* validated at the start frame and redo-needed is cleared; otherwise nothing
\* is rebuilt.
C19_Original ==
    [][RebuildCall
       => /\ FullRebuild <=> RebuildDue
          /\ FullRebuild
             => /\ \E i \in Calls(trace', "BKE_ptcache_validate") :
                      trace'[i][4] = StartFrame
                /\ ~cache'.redo
          /\ ~RebuildDue => NothingRebuilt]_vars

\* C19: the same, with the cache validated at the requested frame, start + 1,
\* and at no other frame, and its last exact frame set to 0.
C19_RebuildAtStart ==
    [][RebuildCall
       => /\ FullRebuild <=> RebuildDue
          /\ FullRebuild
             => /\ Calls(trace', "BKE_ptcache_validate") # {}
                /\ \A i \in Calls(trace', "BKE_ptcache_validate") :
                      trace'[i][4] = StartFrame + 1
                /\ cache'.last_exact = 0
                /\ ~cache'.redo
          /\ ~RebuildDue => NothingRebuilt]_vars

\* a rebuild_world that rebuilt: cache reset, full update pass, cache validated
C19_Witness ==
    /\ lastOp[1] = "rebuild_world" /\ lastOp[2] = StartFrame + 1
    /\ ~crashed
    /\ Calls(trace, "BKE_ptcache_id_reset") # {}
    /\ \E i \in Calls(trace, "rigidbody_update_simulation") : trace[i][4] = 1
    /\ Constructions(trace) # {}
    /\ Calls(trace, "BKE_ptcache_validate") # {}
    /\ ~cache.redo

\* a rebuild_world at the frame after the start that found nothing to do
C19_WitnessIdle ==
    /\ lastOp[1] = "rebuild_world" /\ lastOp[2] = StartFrame + 1
    /\ ~crashed
    /\ trace = <<>>

-----------------------------------------------------------------------------
(* Properties of the order of a frame advance (SpecTime)                    *)

\* the calls named `name` with argument x the last entry point made
CallsWith(t, name, x) == {i \in Calls(t, name) : t[i][4] = x}

\* every call of the first set comes before every call of the second
Before(A, B) == \A i \in A : \A j \in B : i < j

\* the call that just returned stepped the engine
SteppingCall ==
    /\ lastOp'[1] = "do_simulation"
    /\ ~crashed'
    /\ Calls(trace', "RB_dworld_step_simulation") # {}

\* C20: in a do_simulation call that steps the engine, the start-frame
\* snapshot is written first if last-simulated-time == start and the cache is
\* outdated; then comes the one update pass without rebuild, then the one
\* engine step, then the post-step reconciliation, then the cache validate and
\* the write of frame ctime; last-simulated-time is still the old one when the
\* engine steps and is ctime when the call returns.
C20_StepOrder ==
    [][SteppingCall
       => LET t      == trace'
              ctime  == ClampFrame(lastOp'[2])
              snap   == IF ctime = StartFrame THEN {}
                        ELSE CallsWith(t, "BKE_ptcache_write", StartFrame)
              pass   == CallsWith(t, "rigidbody_update_simulation", 0)
              step   == Calls(t, "RB_dworld_step_simulation")
              post   == Calls(t, "rigidbody_update_simulation_post_step")
              valid  == CallsWith(t, "BKE_ptcache_validate", ctime)
              write  == CallsWith(t, "BKE_ptcache_write", ctime)
          IN  /\ (rbw.ltime = StartFrame /\ cache.outdated) => Cardinality(snap) = 1
              /\ Cardinality(pass) = 1 /\ Cardinality(step) = 1
              /\ Cardinality(post) = 1 /\ Cardinality(valid) = 1
              /\ Cardinality(write) = 1
              /\ Before(snap, pass) /\ Before(pass, step) /\ Before(step, post)
              /\ Before(post, valid) /\ Before(valid, write)
              /\ BeforeStep(Pack, lastOp'[2]).rbw.ltime = rbw.ltime
              /\ rbw.ltime # ctime
              /\ rbw'.ltime = ctime]_vars

\* a stepping call from the start frame with the cache outdated: the snapshot
\* of the start frame and the frame itself are both written
C20_Witness ==
    /\ lastOp[1] = "do_simulation" /\ lastOp[2] = StartFrame + 1
    /\ ~crashed
    /\ Calls(trace, "RB_dworld_step_simulation") # {}
    /\ CallsWith(trace, "BKE_ptcache_write", StartFrame) # {}
    /\ CallsWith(trace, "BKE_ptcache_write", StartFrame + 1) # {}
    /\ rbw.ltime = StartFrame + 1
    /\ cache.outdated

\* a stepping call past the start frame: no snapshot
C20_WitnessLater ==
    /\ lastOp[1] = "do_simulation" /\ lastOp[2] = StartFrame + 2
    /\ ~crashed
    /\ Calls(trace, "RB_dworld_step_simulation") # {}
    /\ CallsWith(trace, "BKE_ptcache_write", StartFrame) = {}

-----------------------------------------------------------------------------
(* Properties of a cache miss (SpecKin)                                     *)

\* the call that just returned asked for a frame past the start, reached the
\* cached read and did not find the frame
MissedCall ==
    /\ lastOp'[1] = "do_simulation"
    /\ lastOp'[2] > StartFrame
    /\ ~crashed'
    /\ Calls(trace', "BKE_ptcache_read") # {}
    /\ ClampFrame(lastOp'[2]) \notin cache.frames

\* BKE_rigidbody_do_simulation up to the end of the cached read
AfterCacheRead(W, ctime0) ==
    CacheReadBlock(WorldGuardBlock(AtStartBlock(W, ctime0)), ClampFrame(ctime0))

\* the islands of a kinematic fractured object are kinematic
IslandsKinematic(W) ==
    \A o \in FracObs : \A s \in Shards :
        (W.objects[o].rbo /\ "KINEMATIC" \in W.objects[o].flag /\ W.islands[s].rigidbody)
        => "KINEMATIC" \in W.islands[s].flag

\* C21: a frame request past the start that misses the cache while
\* last-simulated-time == start restores the kinematic flags and rebuilds
\* world, bodies and constraints (update pass with rebuild set, new engine
\* world) before any step; a miss at any other last-simulated-time runs no
\* rebuilding update pass and makes no engine world.
C21_MissRebuildsAtStart ==
    [][MissedCall
       => IF rbw.ltime = StartFrame
          THEN /\ CallsWith(trace', "rigidbody_update_simulation", 1) # {}
               /\ Calls(trace', "RB_dworld_new") # {}
               /\ Before(CallsWith(trace', "rigidbody_update_simulation", 1),
                         Calls(trace', "RB_dworld_step_simulation"))
               /\ Before(Calls(trace', "RB_dworld_new"),
                         Calls(trace', "RB_dworld_step_simulation"))
               /\ IslandsKinematic(AfterCacheRead(Pack, lastOp'[2]))
          ELSE /\ CallsWith(trace', "rigidbody_update_simulation", 1) = {}
               /\ Calls(trace', "RB_dworld_new") = {}]_vars

\* a miss at the start frame that stepped: world, bodies and constraints were
\* made anew before the step
C21_Witness ==
    /\ lastOp[1] = "do_simulation" /\ lastOp[2] = StartFrame + 1
    /\ ~crashed
    /\ Calls(trace, "BKE_ptcache_read") # {}
    /\ Calls(trace, "BKE_ptcache_validate") # {}
    /\ CallsWith(trace, "rigidbody_update_simulation", 1) # {}
    /\ Calls(trace, "RB_dworld_new") # {}
    /\ Calls(trace, "RB_body_new") # {}
    /\ Calls(trace, "RB_constraint_new") # {}
    /\ Calls(trace, "RB_dworld_step_simulation") # {}

\* a miss past the start frame that stepped without rebuilding
C21_WitnessLater ==
    /\ lastOp[1] = "do_simulation" /\ lastOp[2] = StartFrame + 2
    /\ ~crashed
    /\ Calls(trace, "RB_dworld_step_simulation") # {}
    /\ CallsWith(trace, "rigidbody_update_simulation", 1) = {}

-----------------------------------------------------------------------------
(* The entry points on a scene without a world *)

NullEntryPoints ==
    {"cache_reset", "sync_transforms", "validate_sim_world", "free_world",
     "create_object", "create_constraint", "remove_object"}

NullCall == rbw.null /\ lastOp'[1] \in NullEntryPoints

\* C22: an entry point called on a scene whose rigid body world is null
\* (cache_reset, sync_transforms, validate_sim_world, free_world,
\* create_object, create_constraint, remove_object) returns without
\* dereferencing the null world and leaves world, cache and engine as they were.
C22_NullWorldIsNoOp ==
    [][NullCall => /\ ~crashed'
                   /\ rbw' = rbw /\ cache' = cache /\ engine' = engine]_vars

\* the guarded entry points do return without touching anything
C22_GuardedNoOp ==
    [][(rbw.null /\ lastOp'[1] \in {"sync_transforms", "validate_sim_world", "free_world"})
          => /\ ~crashed' /\ trace' = <<>>
             /\ <<rbw, cache, engine, objects, islands, constraints, shardcons>>'
                  = <<rbw, cache, engine, objects, islands, constraints, shardcons>>]_vars

-----------------------------------------------------------------------------
(* Copies of settings and of the world *)

\* the engine handles the settings structs hold, by struct
BodyHolders == {<<"mi", s>> : s \in Shards} \cup {<<"ob", o>> : o \in GroupObs}

BodyOf(ref) ==
    IF ref[1] = "mi" THEN islands[ref[2]].physics_object ELSE objects[ref[2]].physics_object

ShapeOf(ref) ==
    IF ref[1] = "mi" THEN islands[ref[2]].physics_shape ELSE objects[ref[2]].physics_shape

HandlesExclusive ==
    \A a \in BodyHolders : \A b \in BodyHolders \ {a} :
        /\ BodyOf(a) # NULL => BodyOf(a) # BodyOf(b)
        /\ ShapeOf(a) # NULL => ShapeOf(a) # ShapeOf(b)

\* what a copy of the constraint settings made now would hold
ConstraintCopiesClean ==
    \A k \in ConObs :
        constraints[k].rbc
        => /\ BKE_rigidbody_copy_constraint(Pack, k).physics_constraint = NULL
           /\ "NEEDS_VALIDATE" \in BKE_rigidbody_copy_constraint(Pack, k).flag

Clean(rbo) ==
    /\ rbo.physics_object = NULL /\ rbo.physics_shape = NULL
    /\ "NEEDS_VALIDATE" \in rbo.flag

CopiedObject ==
    /\ lastOp'[1] = "copy_object" /\ ~crashed'
    /\ objects[lastOp'[2]].rbo /\ ~objects[lastOp'[3]].rbo

CreatedShard ==
    lastOp'[1] = "create_shard" /\ ~crashed' /\ ~islands[lastOp'[2]].rigidbody

CopiedWorld == lastOp'[1] = "world_copy" /\ ~crashed'

\* C23: no two settings structs hold the same engine body or shape handle;
\* the settings copy_object and create_shard produce have null body and shape
\* handles and NEEDS_VALIDATE set, a copy of constraint settings has a null
\* constraint handle and NEEDS_VALIDATE set, and the world world_copy
\* produces has no engine world, no index arrays and numbodies 0.
C23_CopiesShareNothing ==
    /\ [](HandlesExclusive /\ ConstraintCopiesClean)
    /\ [][/\ CopiedObject => objects'[lastOp'[3]].rbo /\ Clean(objects'[lastOp'[3]])
          /\ CreatedShard => islands'[lastOp'[2]].rigidbody /\ Clean(islands'[lastOp'[2]])
          /\ CopiedWorld => /\ rbw'.physics_world = NULL /\ rbw'.numbodies = 0
                            /\ rbw'.objects = <<>> /\ rbw'.cache_index_map = <<>>
                            /\ rbw'.cache_offset_map = <<>>]_vars

\* an object that holds an engine body and shape was copied to another place
C23_Witness ==
    /\ lastOp[1] = "copy_object" /\ ~crashed
    /\ objects[lastOp[2]].physics_object # NULL /\ objects[lastOp[2]].physics_shape # NULL
    /\ objects[lastOp[3]].rbo /\ objects[lastOp[3]].physics_object = NULL

\* a shard got its settings from create_shard while the world had bodies
C23_WitnessShard ==
    /\ lastOp[1] = "create_shard" /\ ~crashed
    /\ islands[lastOp[2]].rigidbody /\ "NEEDS_VALIDATE" \in islands[lastOp[2]].flag
    /\ \E o \in PlainObs : objects[o].physics_object # NULL

\* a world with an engine world and bodies was copied
C23_WitnessWorld ==
    /\ lastOp[1] = "world_copy" /\ ~crashed
    /\ rbw.physics_world = NULL /\ \E o \in PlainObs : objects[o].physics_object # NULL

-----------------------------------------------------------------------------
(* One engine world per RigidBodyWorld *)

WorldCall == lastOp'[1] = "validate_sim_world" /\ ~crashed /\ ~rbw.null

\* C24: a RigidBodyWorld never has more than one live engine world.
\* validate_sim_world with rebuild set, or without an engine world, deletes
\* the engine world it has before it makes the new one; with rebuild clear
\* and an engine world present it keeps the handle and makes exactly the two
\* calls that set the solver iterations and the split impulse.
C24_OneEngineWorld ==
    /\ [](engine.worlds = IF rbw.physics_world = NULL THEN 0 ELSE 1)
    /\ [][WorldCall =>
            IF lastOp'[3] = 1 \/ rbw.physics_world = NULL
            THEN /\ Cardinality(Calls(trace', "RB_dworld_new")) = 1
                 /\ rbw'.physics_world = Fresh("world", 0, Pack.rbw.physics_world)
                 /\ IF rbw.physics_world # NULL
                    THEN /\ Cardinality(Calls(trace', "RB_dworld_delete")) = 1
                         /\ Before(Calls(trace', "RB_dworld_delete"),
                                   Calls(trace', "RB_dworld_new"))
                    ELSE Calls(trace', "RB_dworld_delete") = {}
                 /\ Before(Calls(trace', "RB_dworld_new"),
                           Calls(trace', "RB_dworld_set_solver_iterations"))
                 /\ Calls(trace', "RB_dworld_set_split_impulse") # {}
            ELSE /\ rbw'.physics_world = Pack.rbw.physics_world
                 /\ [i \in 1..Len(trace') |-> trace'[i][1]]
                      = <<"RB_dworld_set_solver_iterations", "RB_dworld_set_split_impulse">>
                 /\ engine' = Pack.engine]_vars

\* validate_sim_world with rebuild set replaced an engine world
C24_Witness ==
    /\ lastOp = <<"validate_sim_world", 0, 1>> /\ ~crashed
    /\ Calls(trace, "RB_dworld_delete") # {}
    /\ engine.worlds = 1

\* validate_sim_world without rebuild on a world that has bodies registered
C24_WitnessKept ==
    /\ lastOp = <<"validate_sim_world", 0, 0>> /\ ~crashed
    /\ Calls(trace, "RB_dworld_new") = {}
    /\ engine.bodies # {}

-----------------------------------------------------------------------------
(* Release of body and shape on removal *)

EventsOf(t, name, kind, idx) ==
    {i \in Calls(t, name) : t[i][2] = kind /\ t[i][3] = idx}

\* the call that just returned released the body and shape of the settings
\* `old` (kind and index as in its handles), leaving the settings `new`
Released(kind, idx, old, new) ==
    /\ new.physics_object = NULL /\ new.physics_shape = NULL
    /\ \A h \in engine'.bodies : ~(h[1] = kind /\ h[2] = idx)
    /\ old.physics_object # NULL
       => /\ Cardinality(EventsOf(trace', "RB_body_delete", kind, idx)) = 1
          /\ \A i \in EventsOf(trace', "RB_body_delete", kind, idx) : trace'[i][4] = 0
    /\ old.physics_object \in engine.bodies
       => /\ EventsOf(trace', "RB_dworld_remove_body", kind, idx) # {}
          /\ Before(EventsOf(trace', "RB_dworld_remove_body", kind, idx),
                    EventsOf(trace', "RB_body_delete", kind, idx))
    /\ old.physics_shape # NULL
       => Cardinality(Calls(trace', "RB_shape_delete")
                      \cap {i \in DOMAIN trace' : trace'[i][3] = idx
                               /\ trace'[i][2] = old.physics_shape[1]}) = 1

RemovedShard ==
    /\ lastOp'[1] = "remove_shard" /\ ~crashed' /\ ~rbw.null
    /\ islands[lastOp'[2]].rigidbody

RemovedObject ==
    /\ lastOp'[1] = "remove_object" /\ ~crashed'
    /\ objects[lastOp'[2]].rbo

\* C25: when remove_shard (on a scene with a world) or remove_object returns,
\* the engine body and the engine shape of every body it removed (the shard,
\* the object, the shards of the object) are deleted and their handles null,
\* and a body that was registered in the engine world was taken out of it
\* before RB_body_delete.
C25_RemovalReleasesHandles ==
    [][/\ RemovedShard
          => Released("mi", lastOp'[2], islands[lastOp'[2]], islands'[lastOp'[2]])
       /\ RemovedObject
          => Released("ob", lastOp'[2], objects[lastOp'[2]], objects'[lastOp'[2]])
       /\ (RemovedObject /\ lastOp'[2] \in FracObs)
          => \A s \in Shards :
                islands[s].rigidbody => Released("mi", s, islands[s], islands'[s])]_vars

\* the shards and the objects without a fracture modifier are released so
C25_ShardsAndPlainReleased ==
    [][/\ RemovedShard
          => Released("mi", lastOp'[2], islands[lastOp'[2]], islands'[lastOp'[2]])
       /\ (RemovedObject /\ lastOp'[2] \in PlainObs)
          => Released("ob", lastOp'[2], objects[lastOp'[2]], objects'[lastOp'[2]])
       /\ (RemovedObject /\ lastOp'[2] \in FracObs)
          => \A s \in Shards :
                islands[s].rigidbody => Released("mi", s, islands[s], islands'[s])]_vars

-----------------------------------------------------------------------------
(* Reshape in the update pass *)

\* the states in which a frame advance starts its update pass
PassStates == {V \in {BeforePass(Pack, ctime) : ctime \in Frames} : Stepping(V)}

Pass(V) == rigidbody_update_simulation(V, FALSE)

\* the calls the pass made: the events of R that V does not have yet
PassEvents(V, R, name, kind, idx) ==
    {i \in (Len(V.trace) + 1)..Len(R.trace) :
        R.trace[i][1] = name /\ R.trace[i][2] = kind /\ R.trace[i][3] = idx}

\* settings with a live engine body that are tagged for a reshape and nothing else
ReshapeOnly(rbo) ==
    /\ rbo.physics_object # NULL
    /\ "NEEDS_RESHAPE" \in rbo.flag
    /\ "NEEDS_VALIDATE" \notin rbo.flag /\ "KINEMATIC_REBUILD" \notin rbo.flag

\* the pass from V to R kept the engine body of the settings and attached a shape
BodyKept(V, R, kind, idx, old, new) ==
    /\ new.physics_object = old.physics_object
    /\ PassEvents(V, R, "RB_body_new", kind, idx) = {}
    /\ PassEvents(V, R, "RB_body_delete", kind, idx) = {}
    /\ Cardinality(PassEvents(V, R, "RB_body_set_collision_shape", kind, idx)) = 1
    /\ \A i \in PassEvents(V, R, "RB_body_set_collision_shape", kind, idx) :
          R.trace[i][4] = new.physics_shape[3]
    /\ "NEEDS_RESHAPE" \notin new.flag

\* the pass built a new shape for the settings before it attached it
ShapeBuilt(V, R, kind, idx, old, new) ==
    /\ new.physics_shape # NULL /\ new.physics_shape # old.physics_shape
    /\ Cardinality(PassEvents(V, R, "RB_shape_new", new.physics_shape[1], idx)) = 1
    /\ Before(PassEvents(V, R, "RB_shape_new", new.physics_shape[1], idx),
              PassEvents(V, R, "RB_body_set_collision_shape", kind, idx))

\* the pass built nothing and left shape and shape kind as they were
ShapeKept(V, R, idx, old, new) ==
    /\ new.physics_shape = old.physics_shape /\ new.shape = old.shape
    /\ PassEvents(V, R, "RB_shape_new", old.physics_shape[1], idx) = {}

C26_WitnessKept ==
    \E V \in PassStates : \E o \in PlainObs :
        /\ V.objects[o].rbo /\ ReshapeOnly(V.objects[o])
        /\ ~ShapeBuilds(V.objects[o].shape, V.objects[o].mesh_ok)
        /\ V.objects[o].physics_shape # NULL
        /\ ~Pass(V).crashed

-----------------------------------------------------------------------------
(* The box fallback of the shape builder *)

\* event i of t is the construction of a shape for the settings of event j
BuildsFor(t, i, j) ==
    /\ i \in DOMAIN t /\ t[i][1] = "RB_shape_new"
    /\ t[i][2] = t[j][2] /\ t[i][3] = t[j][3]

\* the shape kind the call left in the settings
ShapeKindOf(kind, idx) ==
    IF kind = "shape_mi" THEN islands'[idx].shape ELSE objects'[idx].shape

ShapeCall == ~crashed' /\ lastOp'[1] \in {"do_simulation", "rebuild_world"}

C27_WitnessObject ==
    /\ ~crashed
    /\ \E j \in Calls(trace, "shape_failed") :
          trace[j][2] = "shape_ob" /\ trace[j][4] = 0 /\ BuildsFor(trace, j + 1, j)

\* an object's construction failed and its old shape stayed
C27_WitnessKept ==
    /\ ~crashed
    /\ \E j \in Calls(trace, "shape_failed") : trace[j][2] = "shape_ob" /\ trace[j][4] = 1

-----------------------------------------------------------------------------
(* C28 *)

\* the call the step made is a transform sync
SyncCall == lastOp'[1] \in {"sync_transforms", "sync_object"}

\* the islands that have a body are where their object is
IslandsAtObject ==
    \A s \in Shards : islands'[s].rigidbody => islands'[s].pos = 0 /\ islands'[s].orn = 0

\* C28: while the world is muted, no call of sync_transforms, at any frame, on
\* a fractured or on a plain owner, gives the object the transform of its
\* body, and the islands of a fractured owner are put where the object is
C28_MutedSyncKeepsTransform ==
    [][(SyncCall /\ rbw.muted /\ ~rbw.null)
       => /\ Calls(trace', "obmat_from_body") = {}
          /\ lastOp'[1] = "sync_transforms" => IslandsAtObject]_vars

\* a muted sync past the start frame of a plain object with a live body
C28_Witness ==
    /\ lastOp[1] = "sync_object"
    /\ lastOp[3] > StartFrame
    /\ rbw.muted
    /\ objects[lastOp[2]].physics_object # NULL
    /\ "KINEMATIC" \notin objects[lastOp[2]].flag

\* a muted sync past the start frame of the fractured owner after a step
C28_WitnessFractured ==
    /\ lastOp = <<"sync_transforms", StartFrame + 1, 0>>
    /\ rbw.muted
    /\ rbw.ltime > StartFrame
    /\ \E s \in Shards : islands[s].physics_object # NULL

\* unmuted, the same sync gives the object the body's transform
C28_WitnessUnmuted ==
    /\ lastOp[1] = "sync_object"
    /\ lastOp[3] > StartFrame
    /\ ~rbw.muted
    /\ Calls(trace, "obmat_from_body") # {}

-----------------------------------------------------------------------------
(* C29 *)

\* the step validated the shard constraint c, flagged for kinematic
\* deactivation, and the call returned
FlaggedValidate(c) ==
    /\ lastOp'[1] = "validate_sim_shard_constraint"
    /\ lastOp'[2] = c
    /\ ~crashed'
    /\ "USE_KINEMATIC_DEACTIVATION" \in shardcons[c].flag

\* both islands of c have settings and an engine body
Buildable(c) ==
    /\ islands[shardcons[c].mi1].rigidbody
    /\ islands[shardcons[c].mi2].rigidbody
    /\ islands[shardcons[c].mi1].physics_object # NULL
    /\ islands[shardcons[c].mi2].physics_object # NULL

\* the call made a new engine constraint for c and cleared the flag
Reconstructed(c) ==
    /\ EventsOf(trace', "RB_constraint_new", "sc", c) # {}
    /\ shardcons'[c].physics_constraint # NULL
    /\ "USE_KINEMATIC_DEACTIVATION" \notin shardcons'[c].flag

\* C29 as stated: validating a flagged shard constraint that has an engine
\* handle makes a new engine constraint whatever `rebuild` is, and the flag
\* is cleared whenever the call returns
C29_Original ==
    [][\A c \in ShardCons :
          FlaggedValidate(c)
          => /\ shardcons[c].physics_constraint # NULL
                => EventsOf(trace', "RB_constraint_new", "sc", c) # {}
             /\ "USE_KINEMATIC_DEACTIVATION" \notin shardcons'[c].flag]_vars

\* C29: validating a flagged shard constraint whose two islands have settings
\* and bodies deletes the engine constraint it has, makes a new one and
\* clears the flag, whatever `rebuild` is; when an island lacks its settings
\* or its body the call returns with no engine constraint and the flag still
\* set
C29_FlaggedRebuilds ==
    [][\A c \in ShardCons :
          FlaggedValidate(c)
          => IF Buildable(c)
             THEN /\ Reconstructed(c)
                  /\ shardcons[c].physics_constraint # NULL
                     => EventsOf(trace', "RB_constraint_delete", "sc", c) # {}
             ELSE /\ EventsOf(trace', "RB_constraint_new", "sc", c) = {}
                  /\ shardcons'[c].physics_constraint = NULL
                  /\ "USE_KINEMATIC_DEACTIVATION" \in shardcons'[c].flag]_vars

\* a flagged constraint with a handle was validated with rebuild false and
\* came out rebuilt and unflagged
C29_Witness ==
    /\ lastOp[1] = "validate_sim_shard_constraint"
    /\ lastOp[3] = 0
    /\ ~crashed
    /\ \E i \in EventsOf(trace, "RB_constraint_delete", "sc", lastOp[2]) :
          \E j \in EventsOf(trace, "RB_constraint_new", "sc", lastOp[2]) : i < j
    /\ Calls(trace, "RB_dworld_remove_constraint") = {}

\* a flagged constraint was validated and is still flagged
C29_WitnessKept ==
    /\ lastOp[1] = "validate_sim_shard_constraint"
    /\ ~crashed
    /\ "USE_KINEMATIC_DEACTIVATION" \in shardcons[lastOp[2]].flag

-----------------------------------------------------------------------------
(* C30 *)

\* min of the weights of the two islands of c, in hundredths
MinWeight(V, c) ==
    Min2(V.islands[V.shardcons[c].mi1].thresh_weight,
         V.islands[V.shardcons[c].mi2].thresh_weight)

\* the rule of threshold thr is active for c
RuleActive(V, c, thr, weighted) == thr > 0 \/ (weighted /\ MinWeight(V, c) > 0)

\* deviation dev is above thr, or above thr times the weight when weighted
Above(V, c, dev, thr, weighted) ==
    IF weighted THEN dev * 100 > thr * MinWeight(V, c) ELSE dev > thr

\* the distance rule of c is active and the distance between its islands
\* deviates from the one captured at bind time by more than the threshold
DistanceExceeded(V, c) ==
    /\ RuleActive(V, c, V.fmd.breaking_distance, V.fmd.breaking_distance_weighted)
    /\ Above(V, c, Abs(calc_dist_angle(V, c)[1] - V.shardcons[c].start_dist),
             V.fmd.breaking_distance, V.fmd.breaking_distance_weighted)

AngleExceeded(V, c) ==
    /\ RuleActive(V, c, V.fmd.breaking_angle, V.fmd.breaking_angle_weighted)
    /\ Above(V, c, Abs(calc_dist_angle(V, c)[2] - V.shardcons[c].start_angle),
             V.fmd.breaking_angle, V.fmd.breaking_angle_weighted)

\* the pass from V to R left c without ENABLED and disabled in the engine,
\* with RB_constraint_set_enabled(false) on the handle c had
DisabledByPass(V, R, c) ==
    /\ "ENABLED" \notin R.shardcons[c].flag
    /\ R.shardcons[c].physics_constraint # NULL
       => ~RB_constraint_is_enabled(R, R.shardcons[c].physics_constraint)
    /\ V.shardcons[c].physics_constraint # NULL
       => \E i \in PassEvents(V, R, "RB_constraint_set_enabled", "sc", c) :
             R.trace[i][4] = 0

C30_WitnessAngle ==
    \E V \in PassStates :
        /\ ~Pass(V).crashed
        /\ ~V.fmd.breaking_angle_weighted
        /\ \E c \in ShardCons :
              /\ AngleExceeded(V, c) /\ ~DistanceExceeded(V, c)
              /\ "ENABLED" \in V.shardcons[c].flag
              /\ V.shardcons[c].physics_constraint # NULL
              /\ RB_constraint_is_enabled(V, V.shardcons[c].physics_constraint)

\* a deviation below the unweighted threshold leaves the constraint enabled
C30_WitnessBelow ==
    \E V \in PassStates :
        /\ ~Pass(V).crashed
        /\ \E c \in ShardCons :
              /\ Abs(calc_dist_angle(V, c)[1] - V.shardcons[c].start_dist) > 0
              /\ ~DistanceExceeded(V, c) /\ ~AngleExceeded(V, c)
              /\ "ENABLED" \in Pass(V).shardcons[c].flag

-----------------------------------------------------------------------------
(* C31 *)

\* the call that just returned stepped the engine while object lastOp'[3]
\* was being transformed
MovingStep ==
    /\ lastOp'[1] = "do_simulation_moving"
    /\ ~crashed'
    /\ Calls(trace', "RB_dworld_step_simulation") # {}

\* the settings whose bodies belong to object o, as <<kind, index, settings>>
BodiesOf(o) ==
    IF o \in FracObs /\ fmd'.active
    THEN {<<"mi", s, islands'[s]>> : s \in {x \in Shards : islands'[x].rigidbody}}
    ELSE IF objects'[o].rbo THEN {<<"ob", o, objects'[o]>>} ELSE {}

\* the calls of `name` on body b that come before (after) event number n
CallsBefore(name, b, n) == {i \in EventsOf(trace', name, b[1], b[2]) : i < n}
CallsAfter(name, b, n) == {i \in EventsOf(trace', name, b[1], b[2]) : i > n}

\* the last thing the update pass told the engine about b is kinematic, mass 0
ForcedKinematic(b, step) ==
    /\ CallsBefore("RB_body_set_kinematic_state", b, step) # {}
    /\ CallsBefore("RB_body_set_mass", b, step) # {}
    /\ \A i \in CallsBefore("RB_body_set_kinematic_state", b, step) : trace'[i][4] = 1
    /\ \A i \in CallsBefore("RB_body_set_mass", b, step) : trace'[i][4] = 0

\* the post-step pass set the kinematic state and the mass of b from its settings
Restored(b, post) ==
    /\ Cardinality(CallsAfter("RB_body_set_kinematic_state", b, post)) = 1
    /\ Cardinality(CallsAfter("RB_body_set_mass", b, post)) = 1
    /\ \A i \in CallsAfter("RB_body_set_kinematic_state", b, post) :
          trace'[i][4] = B2N("KINEMATIC" \in b[3].flag \/ "DISABLED" \in b[3].flag)
    /\ \A i \in CallsAfter("RB_body_set_mass", b, post) :
          trace'[i][4] = RBO_GET_MASS(b[3])

Untouched(b, post) ==
    /\ CallsAfter("RB_body_set_kinematic_state", b, post) = {}
    /\ CallsAfter("RB_body_set_mass", b, post) = {}

C31_WitnessPlain ==
    /\ lastOp[1] = "do_simulation_moving"
    /\ lastOp[3] \in PlainObs
    /\ ~crashed
    /\ Calls(trace, "RB_dworld_step_simulation") # {}
    /\ CallsWith(trace, "RB_body_set_mass", DefaultMass)
           \cap EventsOf(trace, "RB_body_set_mass", "ob", lastOp[3]) # {}

-----------------------------------------------------------------------------
(* C32 *)

\* the entries of history h are all still in history g, where they were
EntriesKept(h, g) ==
    /\ Len(g.locs) >= Len(h.locs)
    /\ \A i \in 1..Len(h.locs) : g.locs[i] = h.locs[i]

\* C32: the transform history of a shard is append-only: over calls of
\* BKE_rigidbody_update_cell and of the body validate, frame_count never
\* decreases and no recorded entry is overwritten or dropped; a call of
\* update_cell adds at most one entry, and when it has added one the number
\* of entries is frame_count
C32_HistoryAppendOnly ==
    [][calc'.fn \in {"update_cell", "validate_sim_shard"}
       => /\ calc'.mi.frame_count >= calc.mi.frame_count
          /\ EntriesKept(calc.mi, calc'.mi)
          /\ calc'.fn = "update_cell"
             => /\ Len(calc'.mi.locs) <= Len(calc.mi.locs) + 1
                /\ Len(calc'.mi.locs) > Len(calc.mi.locs)
                   => Len(calc'.mi.locs) = calc'.mi.frame_count]_vars

\* update_cell alone, from a history whose entries are as many as its
\* frame_count: the count does not decrease and the entries are kept
C32_CountNeverDecreasesInUpdate ==
    [][(calc'.fn = "update_cell" /\ Len(calc.mi.locs) = calc.mi.frame_count)
       => /\ calc'.mi.frame_count >= calc.mi.frame_count
          /\ EntriesKept(calc.mi, calc'.mi)
          /\ Len(calc'.mi.locs) <= Len(calc.mi.locs) + 1]_vars

-----------------------------------------------------------------------------
(* C33 *)

\* the step is a do_simulation call for a frame f past the start that the
\* cache does not hold, with a last simulated frame that is neither the start
\* frame nor the one before f
IdleRequest(ctime, f) ==
    /\ lastOp' = <<"do_simulation", ctime, 0>>
    /\ ~rbw.null
    /\ StartFrame < ctime
    /\ ~BKE_ptcache_read(Pack, f)
    /\ rbw.ltime # StartFrame
    /\ f # rbw.ltime + 1

\* no update pass, no engine world, no step, no cache write, and the last
\* simulated frame, the cache, the settings and the engine are as they were
NothingDone ==
    /\ ~crashed'
    /\ Calls(trace', "rigidbody_update_simulation") = {}
    /\ Calls(trace', "RB_dworld_new") = {}
    /\ Calls(trace', "RB_dworld_step_simulation") = {}
    /\ Calls(trace', "BKE_ptcache_write") = {}
    /\ rbw'.ltime = rbw.ltime
    /\ cache' = cache
    /\ islands' = Pack.islands
    /\ shardcons' = Pack.shardcons
    /\ objects' = Pack.objects
    /\ constraints' = Pack.constraints
    /\ engine' = Pack.engine

\* C33 as stated, with the requested frame taken as it is passed
C33_Original ==
    [][\A ctime \in Frames : IdleRequest(ctime, ctime) => NothingDone]_vars

\* C33: a do_simulation call for a frame past the start, when the cache does
\* not hold the requested frame clamped to the end frame, the last simulated
\* frame is not the start frame and the clamped frame is not the one after
\* it, runs no rebuild, no update pass and no engine step, writes no cache
\* frame and leaves the last simulated frame, the settings and the engine as
\* they were
C33_IdleRequestChangesNothing ==
    [][\A ctime \in Frames : IdleRequest(ctime, ClampFrame(ctime)) => NothingDone]_vars

\* such a request was made on a built world
C33_Witness ==
    /\ lastOp[1] = "do_simulation"
    /\ lastOp[2] > StartFrame
    /\ ~crashed
    /\ rbw.physics_world # NULL
    /\ rbw.ltime # StartFrame
    /\ ClampFrame(lastOp[2]) # rbw.ltime
    /\ ClampFrame(lastOp[2]) \notin cache.frames
    /\ Calls(trace, "BKE_ptcache_read") # {}
    /\ Calls(trace, "RB_dworld_step_simulation") = {}

-----------------------------------------------------------------------------
(* C34 *)

\* C34: while the cache is flagged baked, no call of do_simulation, for any
\* frame and after any calls, steps the engine or writes a cache frame: the
\* frames the cache holds stay the same
C34_BakedNeverStepsOrWrites ==
    [][(lastOp'[1] = "do_simulation" /\ cache.baked)
       => /\ Calls(trace', "RB_dworld_step_simulation") = {}
          /\ Calls(trace', "BKE_ptcache_write") = {}
          /\ cache'.frames = cache.frames
          /\ cache'.baked]_vars

\* a baked cache was asked for the frame after the last simulated one, which
\* it does not hold, on a built world
C34_Witness ==
    /\ lastOp[1] = "do_simulation"
    /\ cache.baked
    /\ ~crashed
    /\ rbw.physics_world # NULL
    /\ lastOp[2] = rbw.ltime + 1
    /\ lastOp[2] <= EndFrame
    /\ lastOp[2] \notin cache.frames
    /\ Calls(trace, "BKE_ptcache_read") # {}

\* a baked cache was asked for a frame it holds
C34_WitnessHit ==
    /\ lastOp[1] = "do_simulation"
    /\ cache.baked
    /\ lastOp[2] \in cache.frames
    /\ rbw.ltime = lastOp[2]
    /\ lastOp[2] > StartFrame

-----------------------------------------------------------------------------
(* C35 *)

\* in R every shard constraint with an engine handle is enabled in the engine
\* exactly when its ENABLED flag is set
EnabledAgrees(R) ==
    \A c \in ShardCons :
        R.shardcons[c].physics_constraint # NULL
        => (RB_constraint_is_enabled(R, R.shardcons[c].physics_constraint)
            <=> "ENABLED" \in R.shardcons[c].flag)

\* the call that just returned ended with an update pass: no step followed
EndedWithPass ==
    /\ lastOp'[1] \in {"do_simulation", "rebuild_world"}
    /\ ~crashed'
    /\ Calls(trace', "rigidbody_update_simulation") # {}
    /\ Calls(trace', "RB_dworld_step_simulation") = {}

\* C35: when the update pass returns, before a step or at the end of a call,
\* every shard constraint that holds an engine handle is enabled in the engine
\* if and only if its ENABLED flag is set, also when rebuild_comp_con is set
C35_EnabledMatchesFlag ==
    [][/\ \A V \in PassStates : ~Pass(V).crashed => EnabledAgrees(Pass(V))
       /\ EndedWithPass => EnabledAgrees([shardcons |-> shardcons', engine |-> engine'])]_vars

\* the same for the passes that run with rebuild_comp_con cleared and start
\* from constraints on which engine and flag agree
C35_AgreementKept ==
    \A V \in PassStates :
        (~Pass(V).crashed /\ ~V.rbw.rebuild_comp_con /\ EnabledAgrees(V))
        => EnabledAgrees(Pass(V))

-----------------------------------------------------------------------------
(* C36 *)

\* the pass from V to R made a new body for island s, which is dynamic
RebuiltDynamic(V, R, s) ==
    /\ PassEvents(V, R, "RB_body_new", "mi", s) # {}
    /\ R.islands[s].physics_object # NULL
    /\ "KINEMATIC" \notin R.islands[s].flag
    /\ "KINEMATIC_REBUILD" \notin R.islands[s].flag

\* the pass made a new engine constraint for c and captured the distance and
\* angle between its islands as they are
Recaptured(V, R, c) ==
    /\ PassEvents(V, R, "RB_constraint_new", "sc", c) # {}
    /\ R.shardcons[c].start_dist = calc_dist_angle(R, c)[1]
    /\ R.shardcons[c].start_angle = calc_dist_angle(R, c)[2]

\* C36: an island that the filter callback has flagged KINEMATIC_REBUILD gets,
\* in the next update pass, a new body that is dynamic, and each shard
\* constraint that has the island as an endpoint is rebuilt and gets its rest
\* distance and rest angle captured again from where the bodies are
C36_KinematicRebuild ==
    \A V \in PassStates :
        ~Pass(V).crashed
        => \A s \in Shards :
              (V.islands[s].rigidbody /\ "KINEMATIC_REBUILD" \in V.islands[s].flag)
              => /\ RebuiltDynamic(V, Pass(V), s)
                 /\ \A c \in ShardCons :
                       (V.shardcons[c].mi1 = s \/ V.shardcons[c].mi2 = s)
                       => Recaptured(V, Pass(V), c)

\* the part about the body alone
C36_BodyRebuiltDynamic ==
    \A V \in PassStates :
        ~Pass(V).crashed
        => \A s \in Shards :
              (V.islands[s].rigidbody /\ "KINEMATIC_REBUILD" \in V.islands[s].flag)
              => RebuiltDynamic(V, Pass(V), s)

\* the part about the new engine constraints alone
C36_ConstraintsRebuilt ==
    \A V \in PassStates :
        ~Pass(V).crashed
        => \A s \in Shards :
              (V.islands[s].rigidbody /\ "KINEMATIC_REBUILD" \in V.islands[s].flag)
              => \A c \in ShardCons :
                    (V.shardcons[c].mi1 = s \/ V.shardcons[c].mi2 = s)
                    => PassEvents(V, Pass(V), "RB_constraint_new", "sc", c) # {}

-----------------------------------------------------------------------------
(* C37 *)

\* the calls of RB_dworld_remove_constraint the engine step from V to R made
\* with the handle that shard constraint c has in V
StepRemovals(V, R, c) ==
    PassEvents(V, R, "RB_dworld_remove_constraint",
               V.shardcons[c].physics_constraint[1],
               V.shardcons[c].physics_constraint[2])

\* the step removes c at most once, and not at all if c has no engine
\* constraint or is not in the world
RemovedProperly(V, R, c) ==
    /\ Cardinality(StepRemovals(V, R, c)) <= 1
    /\ (\/ V.shardcons[c].physics_constraint = NULL
        \/ V.shardcons[c].physics_constraint \notin V.engine.cons)
       => StepRemovals(V, R, c) = {}

\* the callback has taken c out of the world and nothing has validated it since
Unhooked(V, c) == "USE_KINEMATIC_DEACTIVATION" \in V.shardcons[c].flag

AllRegistered(R) ==
    \A c \in ShardCons :
        R.shardcons[c].physics_constraint # NULL
        => R.shardcons[c].physics_constraint \in R.engine.cons

\* C37: in one engine step, however often the filter callback fires, each
\* shard constraint is removed from the engine world at most once and never
\* while it has no engine constraint or is not in the world; after the update
\* pass that follows, every shard constraint that has an engine constraint is
\* in the world
C37_UnhookOnce ==
    /\ \A V \in StepStates : \A inp \in TriggerInputs(V) :
          \A c \in ShardCons :
             RemovedProperly(V, RB_dworld_step_simulation(V, inp), c)
    /\ \A V \in PassStates :
          ((\E c \in ShardCons : Unhooked(V, c)) /\ ~Pass(V).crashed)
          => AllRegistered(Pass(V))

\* the part about the pass that follows
C37_RegisteredAfterPass ==
    \A V \in PassStates :
        ((\E c \in ShardCons : Unhooked(V, c)) /\ ~Pass(V).crashed)
        => AllRegistered(Pass(V))

\* the part about the step, for a single call of the callback
C37_SingleCallback ==
    \A V \in StepStates : \A inp \in StepInputsUpTo(V, 1) :
        \A c \in ShardCons :
           RemovedProperly(V, RB_dworld_step_simulation(V, inp), c)

-----------------------------------------------------------------------------
(* C38 *)

\* the value of `counter` when the fill loop ends: the slots it has written
FilledSlots(W) == Len(AllSlots(W, 0))

\* the 0-based positions of group object o in rbw->objects
PositionsIn(R, o) == {i \in 0..(Len(R.rbw.objects) - 1) : R.rbw.objects[i + 1] = o}

\* the slots whose owner index is i
SlotsOwnedBy(R, i) ==
    {k \in 0..(Len(R.rbw.cache_offset_map) - 1) : R.rbw.cache_offset_map[k + 1] = i}

ShardSlotsRight(R, o) ==
    /\ \A s \in Shards :
          /\ R.islands[s].linear_index \in 0..(R.rbw.numbodies - 1)
          /\ At(R.rbw.cache_index_map, R.islands[s].linear_index, BodyRefGarbage)
               = RbRefOfIsland(R, s)
          /\ At(R.rbw.cache_offset_map, R.islands[s].linear_index, ObGarbage)
               \in PositionsIn(R, o)
    /\ \A s, t \in Shards :
          s # t => R.islands[s].linear_index # R.islands[t].linear_index

OneSlot(R, o) ==
    \A i \in PositionsIn(R, o) :
        /\ Cardinality(SlotsOwnedBy(R, i)) = 1
        /\ \A k \in SlotsOwnedBy(R, i) :
              R.rbw.cache_index_map[k + 1] = RbRefOfObject(R, o)

IndexMapRight(W, R) ==
    /\ FilledSlots(W) = R.rbw.numbodies
    /\ Len(R.rbw.cache_index_map) = R.rbw.numbodies
    /\ Len(R.rbw.cache_offset_map) = R.rbw.numbodies
    /\ \A i \in 1..Len(Group) :
          /\ PositionsIn(R, Group[i]) # {}
          /\ IF isModifierActive(R, Group[i])
             THEN ShardSlotsRight(R, Group[i])
             ELSE OneSlot(R, Group[i])

-----------------------------------------------------------------------------
(* C39 *)

\* the object-level settings of the owner of the islands are kinematic
OwnerKinematic ==
    \E o \in FracObs : objects[o].rbo /\ "KINEMATIC" \in objects[o].flag

ResetReturned == lastOp'[1] = "cache_reset" /\ ~crashed' /\ ~rbw.null

\* C39: after BKE_rigidbody_cache_reset on a world that is not null the cache
\* is flagged outdated; if the owner's object-level settings are kinematic,
\* every island that has settings carries KINEMATIC and NEEDS_VALIDATE,
\* whatever the filter callback had cleared; otherwise the islands' flags are
\* as they were
C39_ResetRestoresKinematic ==
    [][ResetReturned
       => /\ cache'.outdated
          /\ \A s \in Shards :
                IF OwnerKinematic /\ islands[s].rigidbody
                THEN {"KINEMATIC", "NEEDS_VALIDATE"} \subseteq islands'[s].flag
                ELSE islands'[s].flag = islands[s].flag]_vars

\* the reset has returned on an island that the callback had made dynamic and
\* that no pass has rebuilt yet
C39_Witness ==
    /\ lastOp[1] = "cache_reset"
    /\ ~crashed
    /\ cache.outdated
    /\ \E s \in Shards :
          {"KINEMATIC", "KINEMATIC_REBUILD", "NEEDS_VALIDATE"} \subseteq islands[s].flag

\* the reset has returned in a scene whose owner is not kinematic
C39_WitnessDynamic ==
    /\ lastOp[1] = "cache_reset"
    /\ ~crashed
    /\ \A o \in FracObs : objects[o].rbo /\ "KINEMATIC" \notin objects[o].flag
    /\ \E s \in Shards : islands[s].rigidbody /\ "KINEMATIC" \notin islands[s].flag

-----------------------------------------------------------------------------
(* C40 *)

\* shard constraint c is not disabled: flagged ENABLED and, if it has an
\* engine constraint, enabled there
NotDisabled(R, c) ==
    /\ "ENABLED" \in R.shardcons[c].flag
    /\ R.shardcons[c].physics_constraint # NULL
       => RB_constraint_is_enabled(R, R.shardcons[c].physics_constraint)

PercentageOnly(V) ==
    /\ V.fmd.breaking_percentage > 0
    /\ V.fmd.breaking_distance = 0 /\ ~V.fmd.breaking_distance_weighted
    /\ V.fmd.breaking_angle = 0 /\ ~V.fmd.breaking_angle_weighted

\* the states in which BKE_rigidbody_rebuild_world starts its rebuilding pass
RebuildStates ==
    {BKE_ptcache_id_reset(V) : V \in
        {U \in {RebuildOutdatedBlock(Pack)} :
            ~U.crashed /\ ~U.rbw.null /\ U.rbw.ltime = StartFrame /\ U.cache.outdated}}

\* the update passes the next call can run, as <<state before, state after>>
NextPasses ==
    {<<V, Pass(V)>> : V \in PassStates}
    \cup {<<V, rigidbody_update_simulation(V, TRUE)>> : V \in RebuildStates}

NoneDisabled(V) ==
    /\ PercentageOnly(V)
    /\ \A s \in Shards : V.islands[s].rigidbody
    /\ \A c \in ShardCons : NotDisabled(V, c)

\* C40: with a breaking percentage above 0, weighted or not and whatever the
\* islands' weights, an update pass that starts with no shard constraint
\* disabled disables none
C40_NoneBrokenNoneDisabled ==
    \A p \in NextPasses :
        (NoneDisabled(p[1]) /\ ~p[2].crashed)
        => \A c \in ShardCons : NotDisabled(p[2], c)

\* the same where the percentage each island compares with is above 0
C40_PositiveThreshold ==
    \A p \in NextPasses :
        (/\ NoneDisabled(p[1])
         /\ \A s \in Shards : ScaledPercentage(p[1], s) > 0
         /\ ~p[2].crashed)
        => \A c \in ShardCons : NotDisabled(p[2], c)

\* a pass is about to start with nothing disabled and a percentage above 0 to
\* compare with
C40_WitnessPositive ==
    \E p \in NextPasses :
        /\ NoneDisabled(p[1])
        /\ \A s \in Shards : ScaledPercentage(p[1], s) > 0
        /\ ~p[2].crashed
        /\ \E c \in ShardCons : p[1].shardcons[c].physics_constraint # NULL

=============================================================================
